---- MODULE Spec2Model ----
(***************************************************************************)
(* Model of the Impact Analyzer (feature_4) of main_app.py: the line diff  *)
(* of two code snippets, the change metrics derived from it, the retrying  *)
(* narrative generation and the session cache of the generated texts.      *)
(*                                                                         *)
(* A text is a sequence of one-character strings.  A line is a text        *)
(* without line boundaries.                                                *)
(***************************************************************************)
EXTENDS Integers, Sequences, FiniteSets, TLC

(***************************************************************************)
(* Bounds of the model.                                                    *)
(***************************************************************************)
MaxLines == 3

(***************************************************************************)
(* Text helpers: what the Python string methods used by feature_4 do.      *)
(***************************************************************************)
\* l.startswith(p)
startswith(l, p) == /\ Len(l) >= Len(p)
                    /\ \A i \in 1..Len(p) : l[i] = p[i]

\* the characters str.splitlines treats as line boundaries (those of the model)
LineBoundaries == {"\n", "\r"}

\* '\n'.join(lines)
RECURSIVE join(_)
join(lines) ==
  IF lines = <<>> THEN <<>>
  ELSE IF Len(lines) = 1 THEN lines[1]
  ELSE lines[1] \o <<"\n">> \o join(Tail(lines))

MinOf(S) == CHOOSE x \in S : \A y \in S : x <= y

\* text.splitlines() from position i on: "\r\n" is one boundary, a final
\* boundary opens no line
RECURSIVE splitfrom(_, _)
splitfrom(text, i) ==
  IF i > Len(text) THEN <<>>
  ELSE LET bs == {j \in i..Len(text) : text[j] \in LineBoundaries}
       IN  IF bs = {} THEN <<SubSeq(text, i, Len(text))>>
           ELSE LET p == MinOf(bs)
                    crlf == text[p] = "\r" /\ p < Len(text) /\ text[p + 1] = "\n"
                IN  <<SubSeq(text, i, p - 1)>>
                    \o splitfrom(text, IF crlf THEN p + 2 ELSE p + 1)

splitlines(text) == splitfrom(text, 1)

\* text.count('\n')
count_newlines(text) == Cardinality({i \in 1..Len(text) : text[i] = "\n"})

\* a[lo:hi] of Python, on a TLA+ sequence (0-based half-open bounds)
Slice(a, lo, hi) == IF hi <= lo THEN <<>> ELSE SubSeq(a, lo + 1, hi)

Max(x, y) == IF x >= y THEN x ELSE y
Min(x, y) == IF x <= y THEN x ELSE y

(***************************************************************************)
(* difflib.unified_diff(old_lines, new_lines, fromfile, tofile,            *)
(* lineterm=''): SequenceMatcher without junk, grouped with 3 lines of     *)
(* context.  Indices are Python's (0-based, half-open).                    *)
(***************************************************************************)
ContextLines == 3

\* length of the common run that ends at a[i], b[j] and stays in [alo..], [blo..]
RECURSIVE RunLen(_, _, _, _, _, _)
RunLen(a, b, i, j, alo, blo) ==
  IF i < alo \/ j < blo \/ a[i + 1] # b[j + 1] THEN 0
  ELSE 1 + RunLen(a, b, i - 1, j - 1, alo, blo)

\* SequenceMatcher.find_longest_match: the longest block, of those the one
\* starting earliest in a, of those the one starting earliest in b
find_longest_match(a, b, alo, ahi, blo, bhi) ==
  LET Ends == {p \in (alo..(ahi - 1)) \X (blo..(bhi - 1)) :
                 RunLen(a, b, p[1], p[2], alo, blo) > 0}
      K(p) == RunLen(a, b, p[1], p[2], alo, blo)
  IN  IF Ends = {} THEN <<alo, blo, 0>>
      ELSE LET best == CHOOSE p \in Ends :
                         \A q \in Ends :
                           \/ K(p) > K(q)
                           \/ K(p) = K(q) /\ p[1] < q[1]
                           \/ K(p) = K(q) /\ p[1] = q[1] /\ p[2] <= q[2]
           IN  <<best[1] - K(best) + 1, best[2] - K(best) + 1, K(best)>>

\* the matching blocks of a[alo:ahi] and b[blo:bhi], in increasing order
RECURSIVE blocks_between(_, _, _, _, _, _)
blocks_between(a, b, alo, ahi, blo, bhi) ==
  LET m == find_longest_match(a, b, alo, ahi, blo, bhi)
      i == m[1]
      j == m[2]
      k == m[3]
  IN  IF k = 0 THEN <<>>
      ELSE (IF alo < i /\ blo < j
            THEN blocks_between(a, b, alo, i, blo, j) ELSE <<>>)
           \o <<m>> \o
           (IF i + k < ahi /\ j + k < bhi
            THEN blocks_between(a, b, i + k, ahi, j + k, bhi) ELSE <<>>)

\* adjacent equal blocks are collapsed into one
RECURSIVE collapse(_)
collapse(bs) ==
  IF Len(bs) < 2 THEN bs
  ELSE IF bs[1][1] + bs[1][3] = bs[2][1] /\ bs[1][2] + bs[1][3] = bs[2][2]
       THEN collapse(<<<<bs[1][1], bs[1][2], bs[1][3] + bs[2][3]>>>>
                     \o SubSeq(bs, 3, Len(bs)))
       ELSE <<bs[1]>> \o collapse(Tail(bs))

\* SequenceMatcher.get_matching_blocks, ending with the sentinel (la, lb, 0)
get_matching_blocks(a, b) ==
  Append(collapse(blocks_between(a, b, 0, Len(a), 0, Len(b))),
         <<Len(a), Len(b), 0>>)

\* SequenceMatcher.get_opcodes
RECURSIVE opcodes_from(_, _, _)
opcodes_from(bs, i, j) ==
  IF bs = <<>> THEN <<>>
  ELSE LET ai == bs[1][1]
           bj == bs[1][2]
           size == bs[1][3]
           tag == IF i < ai /\ j < bj THEN "replace"
                  ELSE IF i < ai THEN "delete"
                  ELSE IF j < bj THEN "insert"
                  ELSE ""
       IN  (IF tag # "" THEN <<[tag |-> tag, i1 |-> i, i2 |-> ai, j1 |-> j, j2 |-> bj]>>
            ELSE <<>>)
           \o (IF size > 0
               THEN <<[tag |-> "equal", i1 |-> ai, i2 |-> ai + size,
                       j1 |-> bj, j2 |-> bj + size]>>
               ELSE <<>>)
           \o opcodes_from(Tail(bs), ai + size, bj + size)

get_opcodes(a, b) == opcodes_from(get_matching_blocks(a, b), 0, 0)

\* SequenceMatcher.get_grouped_opcodes(n): the loop over the trimmed codes;
\* the result is the sequence of groups, group being the one still open
RECURSIVE group_loop(_, _, _)
group_loop(codes, group, n) ==
  IF codes = <<>>
  THEN IF group # <<>> /\ ~(Len(group) = 1 /\ group[1].tag = "equal")
       THEN <<group>> ELSE <<>>
  ELSE LET c == codes[1]
       IN  IF c.tag = "equal" /\ c.i2 - c.i1 > n + n
           THEN <<Append(group, [c EXCEPT !.i2 = Min(c.i2, c.i1 + n),
                                          !.j2 = Min(c.j2, c.j1 + n)])>>
                \o group_loop(Tail(codes),
                              <<[c EXCEPT !.i1 = Max(c.i1, c.i2 - n),
                                          !.j1 = Max(c.j1, c.j2 - n)]>>, n)
           ELSE group_loop(Tail(codes), Append(group, c), n)

\* codes = [("equal", 0, 1, 0, 1)] when there is no opcode
codes_or_equal(codes) ==
  IF codes = <<>>
  THEN <<[tag |-> "equal", i1 |-> 0, i2 |-> 1, j1 |-> 0, j2 |-> 1]>>
  ELSE codes

\* a leading "equal" keeps its last n lines
trim_first(codes, n) ==
  IF codes[1].tag = "equal"
  THEN [codes EXCEPT ![1].i1 = Max(@, codes[1].i2 - n),
                     ![1].j1 = Max(@, codes[1].j2 - n)]
  ELSE codes

\* a trailing "equal" keeps its first n lines
trim_last(codes, n) ==
  IF codes[Len(codes)].tag = "equal"
  THEN [codes EXCEPT ![Len(codes)].i2 = Min(@, codes[Len(codes)].i1 + n),
                     ![Len(codes)].j2 = Min(@, codes[Len(codes)].j1 + n)]
  ELSE codes

get_grouped_opcodes(a, b, n) ==
  group_loop(trim_last(trim_first(codes_or_equal(get_opcodes(a, b)), n), n),
             <<>>, n)

\* difflib._format_range_unified
format_range_unified(start, stop) ==
  LET length == stop - start
      beginning == IF length = 0 THEN start ELSE start + 1
  IN  IF length = 1 THEN <<ToString(beginning)>>
      ELSE <<ToString(beginning), ",", ToString(length)>>

Prefixed(c, lines) == [i \in 1..Len(lines) |-> <<c>> \o lines[i]]

\* the lines one opcode contributes to its hunk
opcode_lines(a, b, c) ==
  IF c.tag = "equal" THEN Prefixed(" ", Slice(a, c.i1, c.i2))
  ELSE (IF c.tag \in {"replace", "delete"}
        THEN Prefixed("-", Slice(a, c.i1, c.i2)) ELSE <<>>)
       \o (IF c.tag \in {"replace", "insert"}
           THEN Prefixed("+", Slice(b, c.j1, c.j2)) ELSE <<>>)

RECURSIVE group_lines(_, _, _)
group_lines(a, b, group) ==
  IF group = <<>> THEN <<>>
  ELSE opcode_lines(a, b, group[1]) \o group_lines(a, b, Tail(group))

hunk_header(group) ==
  LET first == group[1]
      last == group[Len(group)]
  IN  <<"@", "@", " ", "-">>
      \o format_range_unified(first.i1, last.i2)
      \o <<" ", "+">>
      \o format_range_unified(first.j1, last.j2)
      \o <<" ", "@", "@">>

RECURSIVE hunks(_, _, _)
hunks(a, b, groups) ==
  IF groups = <<>> THEN <<>>
  ELSE <<hunk_header(groups[1])>> \o group_lines(a, b, groups[1])
       \o hunks(a, b, Tail(groups))

\* the lines unified_diff yields: nothing at all when there is no change
unified_diff(a, b, fromfile, tofile) ==
  LET groups == get_grouped_opcodes(a, b, ContextLines)
  IN  IF groups = <<>> THEN <<>>
      ELSE << <<"-", "-", "-", " ">> \o fromfile,
              <<"+", "+", "+", " ">> \o tofile >>
           \o hunks(a, b, groups)

(***************************************************************************)
(* The change metrics of feature_4.  A percentage is kept as its number of *)
(* hundredths (10000 stands for 100.0).  Python computes it in binary      *)
(* floating point: num / den is the double nearest to the quotient, the    *)
(* product with 100 is rounded to a double again, and round(y, 2) takes    *)
(* the hundredth nearest to the exact value of that double.  The two       *)
(* roundings matter when the exact percentage lies halfway between two     *)
(* hundredths, and there the result follows the sign of their error.       *)
(***************************************************************************)
abs(x) == IF x < 0 THEN -x ELSE x

Mantissa == 52

RECURSIVE pow2(_)
pow2(e) == IF e = 0 THEN 1 ELSE 2 * pow2(e - 1)

\* 2^e modulo den
RECURSIVE pow2mod(_, _)
pow2mod(e, den) == IF e = 0 THEN 1 % den ELSE (2 * pow2mod(e - 1, den)) % den

\* the least a with num * 2^a >= den
RECURSIVE shift_up(_, _)
shift_up(num, den) == IF num >= den THEN 0 ELSE 1 + shift_up(2 * num, den)

\* the greatest b with den * 2^b <= num
RECURSIVE shift_down(_, _)
shift_down(num, den) == IF 2 * den > num THEN 0 ELSE 1 + shift_down(num, 2 * den)

\* the sign of (num / den) * 100, as the doubles compute it, minus the exact
\* value of 100 * num / den, for num > 0.  With M the 53-bit significand of
\* num / den and e its scale (num / den is about M / 2^e), the error of the
\* division is M - num * 2^e / den and the product 100 * M loses its last k
\* bits; both roundings go to the nearest, a tie to the even significand.
float_error_sign(num, den) ==
  LET a == shift_up(num, den)
      b == shift_down(num, den)
      N == num * pow2(a)
      T == den * pow2(b)
      e == Mantissa + a - b
      rem == (num * pow2mod(e, den)) % den
      low == (((num * pow2mod(e - 8, den)) % den) * 256) \div den
      up == IF 2 * rem > den THEN 1
            ELSE IF 2 * rem < den THEN 0 ELSE low % 2
      division_error == up * den - rem
      k == IF 25 * N < 32 * T THEN 6 ELSE 7
      product_low == (100 * (low + up)) % pow2(k + 1)
      dropped == product_low % pow2(k)
      kept_odd == product_low \div pow2(k) = 1
      product_error ==
        IF dropped < pow2(k - 1) THEN -dropped
        ELSE IF dropped > pow2(k - 1) THEN pow2(k) - dropped
        ELSE IF kept_odd THEN pow2(k) - dropped ELSE -dropped
      delta == product_error * den + 100 * division_error
  IN  IF delta < 0 THEN -1 ELSE IF delta > 0 THEN 1 ELSE 0

\* round((num / den) * 100, 2), in hundredths
round_percent(num, den) ==
  LET q == (10000 * num) \div den
      r == (10000 * num) % den
      s == IF num = 0 THEN 0 ELSE float_error_sign(num, den)
  IN  IF 2 * r < den THEN q
      ELSE IF 2 * r > den THEN q + 1
      ELSE IF s < 0 THEN q
      ELSE IF s > 0 THEN q + 1
      ELSE IF q % 2 = 0 THEN q ELSE q + 1

\* lines_added_of counting every line of the diff that is not context
lines_added_any(full_diff_text) ==
  LET ls == splitlines(full_diff_text)
  IN  Cardinality({i \in 1..Len(ls) : ~startswith(ls[i], <<" ">>)})

\* sum(1 for l in full_diff_text.splitlines()
\*     if l.startswith('+') and not l.startswith('+++'))
lines_added_of(full_diff_text) ==
  LET ls == splitlines(full_diff_text)
  IN  Cardinality({i \in 1..Len(ls) :
        startswith(ls[i], <<"+">>) /\ ~startswith(ls[i], <<"+", "+", "+">>)})

\* sum(1 for l in full_diff_text.splitlines()
\*     if l.startswith('-') and not l.startswith('---'))
lines_removed_of(full_diff_text) ==
  LET ls == splitlines(full_diff_text)
  IN  Cardinality({i \in 1..Len(ls) :
        startswith(ls[i], <<"-">>) /\ ~startswith(ls[i], <<"-", "-", "-">>)})

\* total_lines_of counting one line more
total_lines_plus_one(old_lines) == Len(old_lines) + 1

\* len(old_lines) or 1
total_lines_of(old_lines) == IF Len(old_lines) # 0 THEN Len(old_lines) ELSE 1

\* round(((lines_added + lines_removed) / total_lines) * 100, 2)
percent_change_of(lines_added, lines_removed, total_lines) ==
  round_percent(lines_added + lines_removed, total_lines)

\* abs(old_code.count('\n') // 5 - new_code.count('\n') // 5)
code_blocks_changed_of(old_code, new_code) ==
  abs((count_newlines(old_code) \div 5) - (count_newlines(new_code) \div 5))

\* text.split('\n'): a final newline opens one more, empty, line
RECURSIVE split_newline(_, _)
split_newline(text, i) ==
  LET bs == {j \in i..Len(text) : text[j] = "\n"}
  IN  IF bs = {} THEN <<SubSeq(text, i, Len(text))>>
      ELSE <<SubSeq(text, i, MinOf(bs) - 1)>> \o split_newline(text, MinOf(bs) + 1)

\* full_diff_text_of with the new snippet cut by split('\n')
full_diff_text_split(old_code, new_code, old_page_title, new_page_title) ==
  join(unified_diff(splitlines(old_code), split_newline(new_code, 1),
                    old_page_title, new_page_title))

\* '\n'.join(difflib.unified_diff(old_lines, new_lines, fromfile=..., tofile=...))
full_diff_text_of(old_code, new_code, old_page_title, new_page_title) ==
  join(unified_diff(splitlines(old_code), splitlines(new_code),
                    old_page_title, new_page_title))

\* the four numbers of the Change Metrics Dashboard
change_metrics(old_code, new_code, old_page_title, new_page_title) ==
  LET full_diff_text == full_diff_text_of(old_code, new_code,
                                          old_page_title, new_page_title)
      lines_added == lines_added_of(full_diff_text)
      lines_removed == lines_removed_of(full_diff_text)
      total_lines == total_lines_of(splitlines(old_code))
  IN  [lines_added |-> lines_added,
       lines_removed |-> lines_removed,
       total_lines |-> total_lines,
       percent_change |-> percent_change_of(lines_added, lines_removed, total_lines),
       code_blocks_changed |-> code_blocks_changed_of(old_code, new_code)]

(***************************************************************************)
(* clean_and_truncate_prompt.  A character that is not ASCII is written as *)
(* its code point ("U+1F7E2").                                             *)
(***************************************************************************)
MAX_CHARS == 10000

NonAscii == {"U+1F7E2", "U+1F7E1", "U+1F534", "U+00E9", "U+2014"}

\* re.sub(r'<[^>]+>', '', text) from position i on: a match runs from a "<"
\* to the first ">" after it and holds at least one character between them
RECURSIVE strip_tags_from(_, _)
strip_tags_from(text, i) ==
  LET lts == {j \in i..Len(text) : text[j] = "<"}
      p == MinOf(lts)
      gts == {j \in (p + 1)..Len(text) : text[j] = ">"}
      e == MinOf(gts)
  IN  IF lts = {} \/ gts = {} THEN SubSeq(text, i, Len(text))
      ELSE IF e = p + 1 THEN SubSeq(text, i, p) \o strip_tags_from(text, p + 1)
      ELSE SubSeq(text, i, p - 1) \o strip_tags_from(text, e + 1)

\* re.sub(r'[^\x00-\x7F]+', '', text, count=1): only the first run goes
strip_non_ascii_once(text) ==
  LET first == MinOf({j \in 1..Len(text) : text[j] \in NonAscii})
      rest == MinOf({j \in first..Len(text) : text[j] \notin NonAscii})
  IN  IF \A j \in 1..Len(text) : text[j] \notin NonAscii THEN text
      ELSE IF \A j \in first..Len(text) : text[j] \in NonAscii
           THEN SubSeq(text, 1, first - 1)
      ELSE SubSeq(text, 1, first - 1) \o SubSeq(text, rest, Len(text))

\* re.sub(r'[^\x00-\x7F]+', '', text)
strip_non_ascii(text) == SelectSeq(text, LAMBDA c : c \notin NonAscii)

clean_and_truncate_prompt(text) ==
  LET cleaned == strip_non_ascii(strip_tags_from(text, 1))
  IN  SubSeq(cleaned, 1, Min(Len(cleaned), MAX_CHARS))

(***************************************************************************)
(* The severity tags of the risk text:                                     *)
(* re.sub(r'\b(Low|Medium|High)\b', marker + ' ' + word, raw_risk)         *)
(***************************************************************************)
WordChars ==
  {"a", "b", "c", "d", "e", "f", "g", "h", "i", "j", "k", "l", "m",
   "n", "o", "p", "q", "r", "s", "t", "u", "v", "w", "x", "y", "z",
   "A", "B", "C", "D", "E", "F", "G", "H", "I", "J", "K", "L", "M",
   "N", "O", "P", "Q", "R", "S", "T", "U", "V", "W", "X", "Y", "Z",
   "0", "1", "2", "3", "4", "5", "6", "7", "8", "9", "_", "U+00E9"}

\* the alternatives in the order the pattern tries them, with their markers
Severities ==
  << [word |-> <<"L", "o", "w">>, marker |-> "U+1F7E2"],
     [word |-> <<"M", "e", "d", "i", "u", "m">>, marker |-> "U+1F7E1"],
     [word |-> <<"H", "i", "g", "h">>, marker |-> "U+1F534"] >>

\* is there a word boundary (\b) just before position i of text
boundary_at(text, i) ==
  LET before == i > 1 /\ text[i - 1] \in WordChars
      after == i <= Len(text) /\ text[i] \in WordChars
  IN  before # after

\* word_at without the word boundary after the word
word_at_prefix(text, i, word) ==
  /\ i + Len(word) - 1 <= Len(text)
  /\ SubSeq(text, i, i + Len(word) - 1) = word
  /\ boundary_at(text, i)

\* does word match at position i of text, between two word boundaries
word_at(text, i, word) ==
  /\ i + Len(word) - 1 <= Len(text)
  /\ SubSeq(text, i, i + Len(word) - 1) = word
  /\ boundary_at(text, i)
  /\ boundary_at(text, i + Len(word))

\* the substitution from position i on: the leftmost match, the first
\* alternative that matches there
RECURSIVE tag_from(_, _)
tag_from(text, i) ==
  LET Hits(j) == {k \in 1..Len(Severities) : word_at(text, j, Severities[k].word)}
      starts == {j \in i..Len(text) : Hits(j) # {}}
  IN  IF starts = {} THEN SubSeq(text, i, Len(text))
      ELSE LET p == MinOf(starts)
               s == Severities[MinOf(Hits(p))]
           IN  SubSeq(text, i, p - 1) \o <<s.marker, " ">> \o s.word
               \o tag_from(text, p + Len(s.word))

tag_severity(raw_risk) == tag_from(raw_risk, 1)

(***************************************************************************)
(* safe_generate.  The collaborator is an oracle: ok[n] tells whether the  *)
(* n-th request of the call succeeds, text is what a successful request    *)
(* returns.  The clock is the time slept since the call began.             *)
(***************************************************************************)
retries == 3

RetryDelay == 2

Whitespace == {" ", "\n", "\r", "\t"}

\* str.strip()
RECURSIVE lstrip(_)
lstrip(text) ==
  IF text # <<>> /\ text[1] \in Whitespace THEN lstrip(Tail(text)) ELSE text

RECURSIVE rstrip(_)
rstrip(text) ==
  IF text # <<>> /\ text[Len(text)] \in Whitespace
  THEN rstrip(SubSeq(text, 1, Len(text) - 1)) ELSE text

strip(text) == lstrip(rstrip(text))

fallback_prompt ==
  <<"E", "x", "p", "l", "a", "i", "n", " ", "t", "h", "i", "s", " ", "c", "o", "d", "e", " ",
    "c", "h", "a", "n", "g", "e", " ", "o", "r", " ", "a", "n", "s", "w", "e", "r", " ", "a",
    " ", "g", "e", "n", "e", "r", "a", "l", " ", "q", "u", "e", "s", "t", "i", "o", "n", " ",
    "a", "b", "o", "u", "t", " ", "c", "o", "d", "e", " ", "q", "u", "a", "l", "i", "t", "y", ".">>

\* safe_generate at its start: the prompt is cleaned, the loop is entered
generate_start(prompt, oracle) ==
  [pc |-> IF 0 < retries THEN "loop" ELSE "fallback", i |-> 0,
   prompt |-> clean_and_truncate_prompt(prompt), oracle |-> oracle,
   requests |-> <<>>, clock |-> 0, text |-> <<>>]

\* generate_step without the time.sleep(2) after a failed request
generate_step_no_sleep(g) ==
  LET n == Len(g.requests) + 1
      ok == g.oracle.ok[n]
      req == [kind |-> IF g.pc = "loop" THEN "prompt" ELSE "fallback",
              sent |-> IF g.pc = "loop" THEN g.prompt ELSE fallback_prompt,
              at |-> g.clock, ok |-> ok]
  IN  IF g.pc = "loop" /\ ~ok
      THEN [g EXCEPT !.pc = IF g.i + 1 < retries THEN "loop" ELSE "fallback",
                     !.i = g.i + 1, !.requests = Append(@, req)]
      ELSE IF g.pc \in {"loop", "fallback"}
      THEN [g EXCEPT !.pc = IF ok THEN "returned" ELSE "raised",
                     !.text = IF ok THEN strip(g.oracle.text) ELSE <<>>,
                     !.requests = Append(@, req)]
      ELSE g

\* generate_step with a loop that gives up one iteration early
generate_step_short_loop(g) ==
  LET n == Len(g.requests) + 1
      ok == g.oracle.ok[n]
      req == [kind |-> IF g.pc = "loop" THEN "prompt" ELSE "fallback",
              sent |-> IF g.pc = "loop" THEN g.prompt ELSE fallback_prompt,
              at |-> g.clock, ok |-> ok]
  IN  IF g.pc = "loop" /\ ~ok
      THEN [g EXCEPT !.pc = IF g.i + 1 < retries - 1 THEN "loop" ELSE "fallback",
                     !.i = g.i + 1, !.clock = g.clock + RetryDelay,
                     !.requests = Append(@, req)]
      ELSE IF g.pc \in {"loop", "fallback"}
      THEN [g EXCEPT !.pc = IF ok THEN "returned" ELSE "raised",
                     !.text = IF ok THEN strip(g.oracle.text) ELSE <<>>,
                     !.requests = Append(@, req)]
      ELSE g

\* one request of safe_generate: an iteration of the for loop (the request
\* with the prompt, then the return or the warning and the sleep), or the
\* request with the fallback prompt after the loop
generate_step(g) ==
  LET n == Len(g.requests) + 1
      ok == g.oracle.ok[n]
  IN  IF g.pc = "loop"
      THEN LET req == [kind |-> "prompt", sent |-> g.prompt, at |-> g.clock, ok |-> ok]
           IN  IF ok
               THEN [g EXCEPT !.pc = "returned", !.text = strip(g.oracle.text),
                              !.requests = Append(@, req)]
               ELSE [g EXCEPT !.pc = IF g.i + 1 < retries THEN "loop" ELSE "fallback",
                              !.i = g.i + 1,
                              !.clock = g.clock + RetryDelay,
                              !.requests = Append(@, req)]
      ELSE IF g.pc = "fallback"
      THEN LET req == [kind |-> "fallback", sent |-> fallback_prompt,
                       at |-> g.clock, ok |-> ok]
           IN  [g EXCEPT !.pc = IF ok THEN "returned" ELSE "raised",
                         !.text = IF ok THEN strip(g.oracle.text) ELSE <<>>,
                         !.requests = Append(@, req)]
      ELSE g

RECURSIVE generate_run(_)
generate_run(g) ==
  IF g.pc \in {"returned", "raised"} THEN g ELSE generate_run(generate_step(g))

\* one whole call of safe_generate: what it returns or that it raises, the
\* prompt it sends and the requests it makes
safe_generate(prompt, oracle) ==
  LET g == generate_run(generate_start(prompt, oracle))
  IN  [raised |-> g.pc = "raised", text |-> g.text, prompt |-> g.prompt,
       requests |-> g.requests, clock |-> g.clock]

(***************************************************************************)
(* The prompts of feature_4.                                               *)
(***************************************************************************)
impact_template ==
  <<"A", "n", "a", "l", "y", "z", "e", " ", "t", "h", "i", "s", " ", "c", "o", "d", "e", " ",
    "d", "i", "f", "f", " ", "a", "n", "d", " ", "e", "x", "p", "l", "a", "i", "n", " ", "t",
    "h", "e", " ", "i", "m", "p", "a", "c", "t", ":", "\n", "\n">>

rec_template ==
  <<"A", "s", " ", "a", " ", "s", "e", "n", "i", "o", "r", " ", "e", "n", "g", "i", "n", "e",
    "e", "r", ",", " ", "s", "u", "g", "g", "e", "s", "t", " ", "i", "m", "p", "r", "o", "v",
    "e", "m", "e", "n", "t", "s", " ", "f", "o", "r", " ", "t", "h", "i", "s", " ", "d", "i",
    "f", "f", ":", "\n", "\n">>

risk_template ==
  <<"A", "s", "s", "e", "s", "s", " ", "t", "h", "e", " ", "r", "i", "s", "k", " ", "o", "f",
    " ", "e", "a", "c", "h", " ", "c", "h", "a", "n", "g", "e", " ", "i", "n", " ", "t", "h",
    "i", "s", " ", "c", "o", "d", "e", " ", "d", "i", "f", "f", " ", "w", "i", "t", "h", " ",
    "s", "e", "v", "e", "r", "i", "t", "y", " ", "t", "a", "g", "s", " ", "(", "L", "o", "w",
    ",", " ", "M", "e", "d", "i", "u", "m", ",", " ", "H", "i", "g", "h", ")", ":", "\n", "\n">>

qa_head ==
  <<"Y", "o", "u", " ", "a", "r", "e", " ", "a", "n", " ", "e", "x", "p", "e", "r", "t", " ",
    "A", "I", " ", "a", "s", "s", "i", "s", "t", "a", "n", "t", ".", " ", "B", "a", "s", "e",
    "d", " ", "o", "n", " ", "t", "h", "e", " ", "r", "e", "p", "o", "r", "t", " ", "b", "e",
    "l", "o", "w", ",", " ", "a", "n", "s", "w", "e", "r", " ", "t", "h", "e", " ", "u", "s",
    "e", "r", "'", "s", " ", "q", "u", "e", "s", "t", "i", "o", "n", " ", "c", "l", "e", "a",
    "r", "l", "y", ".", "\n", "\n">>

\* str(n) of a natural number
RECURSIVE str_int(_)
str_int(n) == IF n < 10 THEN <<ToString(n)>>
              ELSE str_int(n \div 10) \o <<ToString(n % 10)>>

\* str(x) of a float that has at most two decimals, x given in hundredths
str_percent(h) ==
  str_int(h \div 100) \o <<".">> \o
  (IF h % 10 = 0 THEN <<ToString((h % 100) \div 10)>>
   ELSE <<ToString((h % 100) \div 10), ToString(h % 10)>>)

\* text[:1000]
ContextChars == 1000

\* head_of without the cut
head_of_whole(text) == text

head_of(text) == SubSeq(text, 1, Min(Len(text), ContextChars))

\* the context of a follow-up question
qa_context(impact_text, rec_text, risk_text, m) ==
  <<"S", "u", "m", "m", "a", "r", "y", ":", " ">> \o head_of(impact_text)
  \o <<"\n", "R", "e", "c", "o", "m", "m", "e", "n", "d", "a", "t", "i", "o", "n", "s", ":", " ">>
  \o head_of(rec_text)
  \o <<"\n", "R", "i", "s", "k", "s", ":", " ">> \o head_of(risk_text)
  \o <<"\n", "C", "h", "a", "n", "g", "e", "s", ":", " ", "+">> \o str_int(m.lines_added)
  \o <<",", " ", "-">> \o str_int(m.lines_removed)
  \o <<",", " ", "~">> \o str_percent(m.percent_change) \o <<"%">>

qa_prompt_of(context, user_question_input) ==
  qa_head \o context
  \o <<"\n", "\n", "Q", "u", "e", "s", "t", "i", "o", "n", ":", " ">> \o user_question_input
  \o <<"\n", "\n", "A", "n", "s", "w", "e", "r", ":">>

(***************************************************************************)
(* The download section (lines 712-750).                                   *)
(***************************************************************************)
ExportFormats == <<"Markdown (.md)", "PDF (.pdf)", "Text (.txt)">>

md_head ==
  <<"#", " ", "I", "m", "p", "a", "c", "t", " ", "S", "u", "m", "m", "a", "r", "y",
    "\n", "\n">>

md_recommendations ==
  <<"\n", "\n", "#", "#", " ", "C", "h", "a", "n", "g", "e", " ", "R", "e", "c", "o",
    "m", "m", "e", "n", "d", "a", "t", "i", "o", "n", "s", "\n", "\n">>

md_risk ==
  <<"\n", "\n", "#", "#", " ", "R", "i", "s", "k", " ", "A", "n", "a", "l", "y", "s",
    "i", "s", "\n", "\n">>

md_content_of(impact_text, rec_text, risk_text) ==
  md_head \o impact_text \o md_recommendations \o rec_text \o md_risk \o risk_text
  \o <<"\n">>

\* the characters of the model that are symbols (\p{So}); none of them is a
\* modifier symbol or unassigned
Symbols == {"U+1F7E2", "U+1F7E1", "U+1F534"}

\* regex.sub(r'[\p{So}\p{Sk}\p{Cn}]+', '', text)
remove_emojis(text) == SelectSeq(text, LAMBDA c : c \notin Symbols)

\* the text each format hands to its encoder: md_content.encode("utf-8") for
\* Markdown and text, the lines of remove_emojis(md_content) for PDF
export_text(export_format, md_content) ==
  IF export_format = "PDF (.pdf)" THEN remove_emojis(md_content) ELSE md_content

(***************************************************************************)
(* The PDF writers.  FPDF with a built-in font holds its pages as text and *)
(* encodes them in latin-1.  Where an unsupported character makes it raise *)
(* depends on the library at hand: strict stands for a library whose       *)
(* multi_cell rejects the line, not strict for one whose multi_cell takes  *)
(* any line and whose output() raises when it encodes the pages.           *)
(***************************************************************************)
\* the characters of the model that latin-1 cannot encode
NotLatin1 == {"U+1F7E2", "U+1F7E1", "U+1F534", "U+2014"}

\* the characters of the model in the ranges of the shared remove_emojis
\* (1F300-1F5FF, 1F600-1F64F, 1F680-1F6FF, 1F1E0-1F1FF)
EmojiRanges == {"U+1F534"}

\* the remove_emojis of lines 33-41
shared_remove_emojis(text) == SelectSeq(text, LAMBDA c : c \notin EmojiRanges)

encodable(line) == \A i \in 1..Len(line) : line[i] \notin NotLatin1

\* line.encode('latin-1', 'replace').decode('latin-1')
latin1_replace(line) ==
  [i \in 1..Len(line) |-> IF line[i] \in NotLatin1 THEN "?" ELSE line[i]]

\* pdf.multi_cell(0, 10, line): does it raise
multi_cell_raises(line, strict) == strict /\ ~encodable(line)

\* pdf.output(dest='S'): does it raise, the lines written being those given
output_raises(written) == \E n \in 1..Len(written) : ~encodable(written[n])

Aborted == [completed |-> FALSE, written |-> <<>>]

\* for line in lines: pdf.multi_cell(0, 10, line), then pdf.output(dest='S')
write_lines(lines, strict) ==
  IF \E n \in 1..Len(lines) : multi_cell_raises(lines[n], strict) THEN Aborted
  ELSE IF output_raises(lines) THEN Aborted
  ELSE [completed |-> TRUE, written |-> lines]

\* try: pdf.multi_cell(0, 10, line)
\* except: pdf.multi_cell(0, 10, line.encode('latin-1', 'replace').decode('latin-1'))
\* for each line, then pdf.output(dest='S')
write_lines_guarded(lines, strict) ==
  LET written == [n \in 1..Len(lines) |->
                    IF multi_cell_raises(lines[n], strict) THEN latin1_replace(lines[n])
                    ELSE lines[n]]
  IN  IF output_raises(written) THEN Aborted
      ELSE [completed |-> TRUE, written |-> written]

\* create_pdf (lines 47-54)
create_pdf(text_in, strict) == write_lines(split_newline(text_in, 1), strict)

\* the PDF branch of feature_4 (lines 723-743)
feature_4_pdf(md_content, strict) ==
  write_lines_guarded(split_newline(remove_emojis(md_content), 1), strict)

\* the PDF branch of feature_5 (lines 845-857)
feature_5_pdf(full_report, strict) ==
  write_lines_guarded(split_newline(shared_remove_emojis(full_report), 1), strict)

PdfWriters == {"create_pdf", "feature_4", "feature_5"}

pdf_of(writer, report_text, strict) ==
  IF writer = "create_pdf" THEN create_pdf(report_text, strict)
  ELSE IF writer = "feature_4" THEN feature_4_pdf(report_text, strict)
  ELSE feature_5_pdf(report_text, strict)

(***************************************************************************)
(* The world of the model: the pages of the space, the local file, what    *)
(* the user may type and what the collaborator may answer.                 *)
(***************************************************************************)
None == <<"None">>

local_option ==
  <<"L", "o", "c", "a", "l", ":", " ", "a", "p", "p", "1", ".", "p", "y">>

\* the pages get_all_pages_from_space lists: a title and the bodies of the
\* code macros of the page
SpacePages ==
  << [title |-> <<"P">>, blocks |-> << <<"a", "\n", "b">> >>],
     [title |-> <<"Q">>, blocks |-> << <<"a">>, <<"+", "+">> >>] >>

\* the contents app1.py may have; None when the file cannot be read
LocalCodes == {None, <<>>, <<"a">>}

\* the pages of the space of a deployment: a deployment without app1.py has
\* all of SpacePages, a deployment with app1.py has the first of them
space_pages(local) == IF local = None THEN SpacePages ELSE SubSeq(SpacePages, 1, 1)

\* the deployments of the model: with a Confluence client, with an app1.py
\* file, with neither
Deployments == {<<TRUE, None>>} \cup {<<FALSE, c>> : c \in LocalCodes}

Questions == {<<>>, <<"q">>, <<"w", "h", "y", "?">>}

ReplyTexts == {<<"L", "o", "w">>, <<" ", "H", "i", "g", "h", "e", "r", "\n">>}

SessionReplies == {<<"L", "o", "w">>}

\* extract_code_blocks, on the code macro bodies of a page
extract_code_blocks(blocks) == join(blocks)

\* an oracle of one safe_generate call: ok[n] is the fate of its n-th request
Oracles == [ok : [1..(retries + 1) -> BOOLEAN], text : ReplyTexts]

\* the oracles of a session run: success at once, success of the fallback
\* only, no success at all
SessionOracles ==
  {[ok |-> [n \in 1..(retries + 1) |-> n > f], text |-> t] :
     f \in {0, retries, retries + 1}, t \in SessionReplies}

Fails(oracle) == \A n \in DOMAIN oracle.ok : ~oracle.ok[n]

\* the snippets of the metrics checks: up to MaxLines lines, with or
\* without a final newline
CodeLines == {<<"a">>, <<"+", "+">>, <<"-", "-">>}

Codes ==
  LET seqs == UNION {[1..n -> CodeLines] : n \in 0..MaxLines}
  IN  {join(ls) : ls \in seqs} \cup {join(ls) \o <<"\n">> : ls \in seqs}

\* pairs of snippets longer or more varied than Codes holds: three lines
\* against four with one line replaced and one appended, two snippets whose
\* longest common run is not part of a longest common subsequence, and five
\* lines without a final newline against one
ScenarioPairs ==
  { <<join(<< <<"a">>, <<"b">>, <<"c">> >>),
      join(<< <<"a">>, <<"x">>, <<"c">>, <<"d">> >>)>>,
    <<join(<< <<"a">>, <<"b">>, <<"a">> >>),
      join(<< <<"b">>, <<"c">>, <<"a">> >>)>>,
    <<join(<< <<"a">>, <<"a">>, <<"a">>, <<"a">>, <<"a">> >>), <<"a">>>> }

\* the prompts of the safe_generate checks
GenPrompts ==
  {impact_template \o <<"+", "a">>,
   rec_template \o <<"<", "b", ">", "-", "a">>,
   risk_template,
   qa_prompt_of(<<"U+1F7E2", " ", "L", "o", "w">>, <<"q">>)}

(***************************************************************************)
(* State.                                                                  *)
(***************************************************************************)
VARIABLES
  confluence,       \* does the cached init_confluence() hold a client
  local_app1_code,  \* the text of app1.py, or None
  session_state,    \* st.session_state: a function from the keys set so far
  generated_for,    \* history: what each generated text was made for
  page,             \* what the last run of the script rendered and requested
  gen,              \* a safe_generate call on its own, request by request
  dash,             \* a metrics dashboard on its own
  text              \* a text transformation on its own

vars == <<confluence, local_app1_code, session_state, generated_for, page, gen, dash,
          text>>

NarrativeKeys == {"impact_text", "rec_text", "risk_text"}

NoMetrics == [lines_added |-> 0, lines_removed |-> 0, total_lines |-> 0,
              percent_change |-> 0, code_blocks_changed |-> 0]

EmptyMap == [k \in {} |-> <<>>]

\* what a run renders: the view it ends in, the widgets' values, the metrics
\* dashboard and the safe_generate calls it made
BlankPage == [view |-> "start", options |-> <<>>, listing_failed |-> FALSE,
              old_page_title |-> None, new_page_title |-> None,
              old_code |-> <<>>, new_code |-> <<>>, safe_diff |-> <<>>,
              metrics |-> NoMetrics, question_rendered |-> FALSE,
              user_question_input |-> <<>>, error |-> "", calls |-> <<>>,
              export_format |-> "", exported |-> <<>>]

NoCall == [pc |-> "idle", i |-> 0, prompt |-> <<>>,
           oracle |-> [ok |-> [n \in 1..(retries + 1) |-> TRUE], text |-> <<>>],
           requests |-> <<>>, clock |-> 0, text |-> <<>>]

NoText == [op |-> "none", pc |-> "idle", input |-> <<>>, output |-> <<>>]

NoDash == [old_code |-> <<>>, new_code |-> <<>>, old_len |-> 0, pc |-> "idle",
           shown |-> FALSE, metrics |-> NoMetrics]

Init ==
  /\ \E d \in Deployments : confluence = d[1] /\ local_app1_code = d[2]
  /\ session_state = EmptyMap
  /\ generated_for = EmptyMap
  /\ page = BlankPage
  /\ text = NoText
  /\ gen = NoCall
  /\ dash = NoDash

Range(f) == {f[x] : x \in DOMAIN f}

\* f with key k set to v
Put(f, k, v) == [x \in DOMAIN f \cup {k} |-> IF x = k THEN v ELSE f[x]]

\* get_code_from_selection
get_code_from_selection(selection, pages, local) ==
  IF selection = local_option THEN (IF local # None THEN local ELSE <<>>)
  ELSE LET hits == {i \in 1..Len(pages) : pages[i].title = selection}
       IN  IF hits = {} THEN <<>>
           ELSE extract_code_blocks(pages[MinOf(hits)].blocks)

\* the titled snippets a selection can yield
Snippets ==
  {[title |-> SpacePages[i].title, code |-> extract_code_blocks(SpacePages[i].blocks)] :
     i \in 1..Len(SpacePages)}
  \cup {[title |-> local_option, code |-> c] : c \in LocalCodes \ {None}}

\* lines 649-658 for each pair of snippets: the diff that goes into the
\* prompts and the metrics of the dashboard
Dashboards ==
  [old \in Snippets, new \in Snippets |->
     [safe_diff |-> clean_and_truncate_prompt(
                      full_diff_text_of(old.code, new.code, old.title, new.title)),
      metrics |-> change_metrics(old.code, new.code, old.title, new.title)]]

(***************************************************************************)
(* One run of feature_4 (the script runs again on every user action).      *)
(* r is the run so far: the session, the history, the calls made and       *)
(* whether an exception is on its way to the handler at the end.           *)
(***************************************************************************)
call_log(key, g) ==
  [call |-> key, prompt |-> g.prompt, requests |-> g.requests, raised |-> g.raised,
   text |-> g.text]

\* the oracle of the n-th safe_generate call of a run
oracle_at(oracles, n) ==
  IF n \in DOMAIN oracles THEN oracles[n]
  ELSE [ok |-> [k \in 1..(retries + 1) |-> TRUE],
        text |-> CHOOSE t \in SessionReplies : TRUE]

\* narrative_step without the test of the session: it generates on every run
narrative_step_regenerate(r, key, template, safe_diff, pair, oracles) ==
  IF r.raised THEN r
  ELSE LET g == safe_generate(template \o safe_diff,
                              oracle_at(oracles, Len(r.calls) + 1))
       IN  IF g.raised
           THEN [r EXCEPT !.raised = TRUE, !.calls = Append(@, call_log(key, g))]
           ELSE [r EXCEPT !.ss = Put(@, key, IF key = "risk_text"
                                             THEN tag_severity(g.text) ELSE g.text),
                          !.gf = Put(@, key, [pair |-> pair, question |-> <<>>]),
                          !.calls = Append(@, call_log(key, g))]

\* narrative_step with the severity substitution outside the test of the
\* session: every run tags the stored risk text again
narrative_step_retag(r, key, template, safe_diff, pair, oracles) ==
  IF r.raised THEN r
  ELSE IF key \in DOMAIN r.ss
       THEN IF key = "risk_text"
            THEN [r EXCEPT !.ss = Put(@, key, tag_severity(r.ss[key]))]
            ELSE r
  ELSE LET g == safe_generate(template \o safe_diff,
                                 oracle_at(oracles, Len(r.calls) + 1))
       IN  IF g.raised
           THEN [r EXCEPT !.raised = TRUE, !.calls = Append(@, call_log(key, g))]
           ELSE [r EXCEPT !.ss = Put(@, key, IF key = "risk_text"
                                             THEN tag_severity(g.text) ELSE g.text),
                          !.gf = Put(@, key, [pair |-> pair, question |-> <<>>]),
                          !.calls = Append(@, call_log(key, g))]

\* if key not in st.session_state: st.session_state[key] = safe_generate(...)
narrative_step(r, key, template, safe_diff, pair, oracles) ==
  IF r.raised \/ key \in DOMAIN r.ss THEN r
  ELSE LET g == safe_generate(template \o safe_diff,
                                 oracle_at(oracles, Len(r.calls) + 1))
       IN  IF g.raised
           THEN [r EXCEPT !.raised = TRUE, !.calls = Append(@, call_log(key, g))]
           ELSE [r EXCEPT !.ss = Put(@, key, IF key = "risk_text"
                                             THEN tag_severity(g.text) ELSE g.text),
                          !.gf = Put(@, key, [pair |-> pair, question |-> <<>>]),
                          !.calls = Append(@, call_log(key, g))]

\* question_step without the comparison with the stored question
question_step_always(r, user_question_input, m, pair, oracles) ==
  IF r.raised THEN r
  ELSE LET ss1 == IF "user_question" \in DOMAIN r.ss THEN r.ss
                  ELSE Put(r.ss, "user_question", <<>>)
           ss2 == IF "qa_answer" \in DOMAIN ss1 THEN ss1
                  ELSE Put(ss1, "qa_answer", <<>>)
           r2 == [r EXCEPT !.ss = ss2, !.rendered = TRUE]
       IN  IF user_question_input # <<>>
           THEN LET ss3 == Put(ss2, "user_question", user_question_input)
                    context == qa_context(ss3["impact_text"], ss3["rec_text"],
                                          ss3["risk_text"], m)
                    g == safe_generate(qa_prompt_of(context, user_question_input),
                                       oracle_at(oracles, Len(r.calls) + 1))
                IN  IF g.raised
                    THEN [r2 EXCEPT !.ss = ss3, !.raised = TRUE,
                                    !.calls = Append(@, call_log("qa_answer", g))]
                    ELSE [r2 EXCEPT !.ss = Put(ss3, "qa_answer", g.text),
                                    !.gf = Put(@, "qa_answer",
                                               [pair |-> pair,
                                                question |-> user_question_input]),
                                    !.calls = Append(@, call_log("qa_answer", g))]
           ELSE r2

\* the follow-up question section
question_step(r, user_question_input, m, pair, oracles) ==
  IF r.raised THEN r
  ELSE LET ss1 == IF "user_question" \in DOMAIN r.ss THEN r.ss
                  ELSE Put(r.ss, "user_question", <<>>)
           ss2 == IF "qa_answer" \in DOMAIN ss1 THEN ss1
                  ELSE Put(ss1, "qa_answer", <<>>)
           r2 == [r EXCEPT !.ss = ss2, !.rendered = TRUE]
       IN  IF user_question_input # <<>> /\ user_question_input # ss2["user_question"]
           THEN LET ss3 == Put(ss2, "user_question", user_question_input)
                    context == qa_context(ss3["impact_text"], ss3["rec_text"],
                                          ss3["risk_text"], m)
                    g == safe_generate(qa_prompt_of(context, user_question_input),
                                       oracle_at(oracles, Len(r.calls) + 1))
                IN  IF g.raised
                    THEN [r2 EXCEPT !.ss = ss3, !.raised = TRUE,
                                    !.calls = Append(@, call_log("qa_answer", g))]
                    ELSE [r2 EXCEPT !.ss = Put(ss3, "qa_answer", g.text),
                                    !.gf = Put(@, "qa_answer",
                                               [pair |-> pair,
                                                question |-> user_question_input]),
                                    !.calls = Append(@, call_log("qa_answer", g))]
           ELSE r2

\* the report of a pair of non-empty snippets, after its metrics: the three
\* narratives, then the question
report(ss, gf, safe_diff, m, pair, user_question_input, oracles) ==
  LET r0 == [ss |-> ss, gf |-> gf, calls |-> <<>>, raised |-> FALSE,
             rendered |-> FALSE]
      r1 == narrative_step(r0, "impact_text", impact_template, safe_diff, pair, oracles)
      r2 == narrative_step(r1, "rec_text", rec_template, safe_diff, pair, oracles)
      r3 == narrative_step(r2, "risk_text", risk_template, safe_diff, pair, oracles)
  IN  question_step(r3, user_question_input, m, pair, oracles)

\* the number of safe_generate calls a run makes when none of them raises
calls_needed(ss, user_question_input) ==
  Cardinality(NarrativeKeys \ DOMAIN ss)
  + (IF /\ user_question_input # <<>>
        /\ user_question_input # (IF "user_question" \in DOMAIN ss
                                  THEN ss["user_question"] ELSE <<>>)
     THEN 1 ELSE 0)

\* no oracle is drawn for a call that is never made: the calls after one
\* that raises get the same oracle
Canonical(oracles) ==
  \A i \in DOMAIN oracles : \A j \in DOMAIN oracles :
    (i < j /\ Fails(oracles[i])) => oracles[j] = oracles[i]

\* what the run leaves behind: the session and the page it has rendered
render_report(fetched, d, user_question_input, export_format, r) ==
  /\ session_state' = r.ss
  /\ generated_for' = r.gf
  /\ page' = [fetched EXCEPT
        !.view = IF r.raised THEN "error" ELSE "report",
        !.error = IF r.raised THEN "generation" ELSE "",
        !.safe_diff = d.safe_diff,
        !.metrics = d.metrics,
        !.question_rendered = r.rendered,
        !.user_question_input = IF r.rendered THEN user_question_input ELSE <<>>,
        !.calls = r.calls,
        !.export_format = IF r.raised THEN "" ELSE export_format,
        !.exported =
          IF r.raised THEN <<>>
          ELSE export_text(export_format,
                           md_content_of(r.ss["impact_text"], r.ss["rec_text"],
                                         r.ss["risk_text"]))]

\* the formats the format box may hold in a run: its first option when the
\* run before has not rendered it; else the format it held, or, in a run that
\* the choice of a format has started (every other widget as it was), any
format_choices(fetched, user_question_input) ==
  IF page.view # "report" THEN {ExportFormats[1]}
  ELSE IF /\ fetched.old_page_title = page.old_page_title
          /\ fetched.new_page_title = page.new_page_title
          /\ user_question_input = page.user_question_input
       THEN Range(ExportFormats)
  ELSE {page.export_format}

\* lines 648-750 for the fetched snippets: d holds their diff and metrics; the
\* question box takes an input only when the run before has rendered it
impact_report(fetched, d) ==
  \E user_question_input \in (IF page.question_rendered THEN Questions ELSE {<<>>}) :
   \E export_format \in format_choices(fetched, user_question_input) :
    \E oracles \in [1..calls_needed(session_state, user_question_input)
                    -> SessionOracles] :
      /\ Canonical(oracles)
      /\ render_report(fetched, d, user_question_input, export_format,
                       report(session_state, generated_for, d.safe_diff, d.metrics,
                              <<fetched.old_code, fetched.new_code>>,
                              user_question_input, oracles))

\* dropdown_options_of with the local file added to a listing only: no
\* option is left when the listing is empty
dropdown_options_listed(local, page_titles) ==
  (IF local # None /\ page_titles # <<>> THEN <<local_option>> ELSE <<>>) \o page_titles

\* dropdown_options = page_titles.copy(), after "Local: app1.py" when the
\* file was read
dropdown_options_of(local, page_titles) ==
  (IF local # None THEN <<local_option>> ELSE <<>>) \o page_titles

\* both_codes without the test: the report is built whatever was fetched
both_codes_unchecked(old_code, new_code) == TRUE

\* if old_code and new_code:
both_codes(old_code, new_code) == old_code # <<>> /\ new_code # <<>>

feature_4 ==
  /\ UNCHANGED <<confluence, local_app1_code, gen, dash, text>>
  /\ IF ~confluence /\ local_app1_code = None
     THEN /\ page' = [BlankPage EXCEPT !.view = "no_source"]
          /\ UNCHANGED <<session_state, generated_for>>
     ELSE
       \E listing \in (IF confluence THEN {"nokey", "ok", "error"} ELSE {"nokey"}) :
         LET pages == IF listing = "ok" THEN space_pages(local_app1_code) ELSE <<>>
             page_titles == [i \in 1..Len(pages) |-> pages[i].title]
             dropdown_options == dropdown_options_of(local_app1_code, page_titles)
             selectable ==
               (Range(dropdown_options) \cap Range(page.options)) \cup {None}
             shown == [BlankPage EXCEPT !.options = dropdown_options,
                                        !.listing_failed = (listing = "error")]
         IN
         \E old_page_title \in selectable, new_page_title \in selectable :
           LET picked == [shown EXCEPT !.old_page_title = old_page_title,
                                       !.new_page_title = new_page_title]
           IN
           IF old_page_title = None \/ new_page_title = None
           THEN /\ page' = [picked EXCEPT !.view = "select"]
                /\ UNCHANGED <<session_state, generated_for>>
           ELSE
             \E fetch_ok \in (IF {old_page_title, new_page_title} = {local_option}
                              THEN {TRUE} ELSE BOOLEAN) :
               IF ~fetch_ok
               THEN /\ page' = [picked EXCEPT !.view = "error", !.error = "fetch"]
                    /\ UNCHANGED <<session_state, generated_for>>
               ELSE
                 LET old_code == get_code_from_selection(old_page_title, pages,
                                                         local_app1_code)
                     new_code == get_code_from_selection(new_page_title, pages,
                                                         local_app1_code)
                     fetched == [picked EXCEPT !.old_code = old_code,
                                               !.new_code = new_code]
                 IN
                 IF ~both_codes(old_code, new_code)
                 THEN /\ page' = [fetched EXCEPT !.view = "no_code"]
                      /\ UNCHANGED <<session_state, generated_for>>
                 ELSE impact_report(
                        fetched,
                        Dashboards[[title |-> old_page_title, code |-> old_code],
                                   [title |-> new_page_title, code |-> new_code]])

Next == feature_4

Spec == Init /\ [][Next]_vars

(***************************************************************************)
(* The session of a deployment that has both a Confluence client and an    *)
(* app1.py file with code in it.                                           *)
(***************************************************************************)
FetchInit ==
  /\ confluence = TRUE
  /\ local_app1_code = <<"a">>
  /\ session_state = EmptyMap
  /\ generated_for = EmptyMap
  /\ page = BlankPage
  /\ text = NoText
  /\ gen = NoCall
  /\ dash = NoDash

FetchNext == feature_4

FetchSpec == FetchInit /\ [][FetchNext]_vars

(***************************************************************************)
(* safe_generate on its own: a call with any prompt and any oracle, taken  *)
(* request by request.                                                     *)
(***************************************************************************)
GenInit ==
  /\ confluence = TRUE
  /\ local_app1_code = None
  /\ session_state = EmptyMap
  /\ generated_for = EmptyMap
  /\ page = BlankPage
  /\ text = NoText
  /\ dash = NoDash
  /\ \E prompt \in GenPrompts, oracle \in Oracles :
       gen = generate_start(prompt, oracle)

\* a request with the prompt, inside the for loop
generate_attempt ==
  /\ gen.pc = "loop"
  /\ gen' = generate_step(gen)
  /\ UNCHANGED <<confluence, local_app1_code, session_state, generated_for, page, dash,
                 text>>

\* the request with the fallback prompt, after the for loop
generate_fallback ==
  /\ gen.pc = "fallback"
  /\ gen' = generate_step(gen)
  /\ UNCHANGED <<confluence, local_app1_code, session_state, generated_for, page, dash,
                 text>>

GenNext == generate_attempt \/ generate_fallback

GenSpec == GenInit /\ [][GenNext]_vars

\* the call is synchronous: a request that can be made is made
GenFairSpec == GenSpec /\ WF_vars(GenNext)

(***************************************************************************)
(* The metrics dashboard on its own: any two snippets of Codes.            *)
(***************************************************************************)
MetricsInit ==
  /\ confluence = TRUE
  /\ local_app1_code = None
  /\ session_state = EmptyMap
  /\ generated_for = EmptyMap
  /\ page = BlankPage
  /\ text = NoText
  /\ gen = NoCall
  /\ \E pair \in (Codes \X Codes) \cup ScenarioPairs :
       dash = [NoDash EXCEPT !.old_code = pair[1], !.new_code = pair[2],
                             !.pc = "fetched"]

\* if old_code and new_code: the diff and the metrics of the dashboard
metrics_dashboard ==
  /\ dash.pc = "fetched"
  /\ dash' = IF dash.old_code # <<>> /\ dash.new_code # <<>>
             THEN [dash EXCEPT !.pc = "done", !.shown = TRUE,
                               !.old_len = Len(splitlines(dash.old_code)),
                               !.metrics = change_metrics(dash.old_code, dash.new_code,
                                                          <<"P">>, <<"Q">>)]
             ELSE [dash EXCEPT !.pc = "done"]
  /\ UNCHANGED <<confluence, local_app1_code, session_state, generated_for, page, gen,
                 text>>

MetricsNext == metrics_dashboard

MetricsSpec == MetricsInit /\ [][MetricsNext]_vars

(***************************************************************************)
(* AI Powered Search (feature_1) and the Test Support Tool (feature_5) in  *)
(* one session: the feature box of the main page decides which of the two  *)
(* a run executes.  The page of a run tells the feature, the text shown    *)
(* under "AI Response" (None when nothing is shown), whether a download    *)
(* button is shown with it, and which inputs the next run can use.         *)
(* generated_for tells, for each key, the feature that wrote it and        *)
(* whether the value is a generated text.                                  *)
(***************************************************************************)
FeaturePage == [feature |-> "none", response |-> None, download |-> FALSE,
                ask_rendered |-> FALSE, classify_rendered |-> FALSE,
                error |-> FALSE]

TestKeys == <<"strategy_text", "cross_text", "sensitivity_text", "ai_response">>

FeatureInit ==
  /\ confluence \in BOOLEAN
  /\ local_app1_code = None
  /\ session_state = EmptyMap
  /\ generated_for = EmptyMap
  /\ page = FeaturePage
  /\ text = NoText
  /\ gen = NoCall
  /\ dash = NoDash

Written(feature, generated) == [feature |-> feature, generated |-> generated]

\* one run of feature_1.  selected: the listing succeeded and pages are
\* selected; fetch_ok: their contents are fetched; the button can be clicked
\* when the run before has rendered it; ok, reply: the fate and the text of
\* generate_content
feature_1 ==
  /\ UNCHANGED <<confluence, local_app1_code, gen, dash, text>>
  /\ \E selected \in (IF confluence THEN BOOLEAN ELSE {FALSE}), fetch_ok \in BOOLEAN,
        query \in Questions, ok \in BOOLEAN, reply \in ReplyTexts,
        clicked \in (IF page.feature = "feature_1" /\ page.ask_rendered
                     THEN BOOLEAN ELSE {FALSE}) :
       LET full_context == selected /\ fetch_ok
           generate == selected /\ clicked /\ query # <<>> /\ full_context
           answered == generate /\ ok
           ss == IF answered THEN Put(session_state, "ai_response", strip(reply))
                 ELSE session_state
       IN  /\ session_state' = ss
           /\ generated_for' = IF answered
                                THEN Put(generated_for, "ai_response",
                                         Written("feature_1", TRUE))
                                ELSE generated_for
           /\ page' = [FeaturePage EXCEPT
                 !.feature = "feature_1",
                 !.ask_rendered = selected,
                 !.error = (~confluence \/ (selected /\ ~fetch_ok)
                            \/ (selected /\ clicked /\ ~answered)),
                 !.response = IF "ai_response" \in DOMAIN ss THEN ss["ai_response"]
                              ELSE None,
                 !.download = "ai_response" \in DOMAIN ss]

\* the session after lines 777-784
test_keys_set(ss) ==
  [k \in DOMAIN ss \cup Range(TestKeys) |-> IF k \in DOMAIN ss THEN ss[k] ELSE <<>>]

test_keys_written(gf) ==
  [k \in DOMAIN gf \cup Range(TestKeys) |->
     IF k \in DOMAIN gf THEN gf[k] ELSE Written("feature_5", FALSE)]

\* a generate_content call of feature_5 for key, in a run r that has not
\* raised: the call raises when it is the fails-th call of the run
test_generate(r, wanted, key, fails, reply) ==
  IF r.raised \/ ~wanted THEN r
  ELSE IF r.calls + 1 = fails THEN [r EXCEPT !.raised = TRUE, !.calls = @ + 1]
  ELSE [r EXCEPT !.ss = Put(@, key, strip(reply)),
                 !.gf = Put(@, key, Written("feature_5", TRUE)),
                 !.calls = @ + 1]

\* a fetch of feature_5 in a run r that has not raised
test_fetch(r, wanted, fetch_ok) ==
  IF ~r.raised /\ wanted /\ ~fetch_ok THEN [r EXCEPT !.raised = TRUE] ELSE r

\* one run of feature_5.  listed: a space key is entered and the listing
\* succeeds; code, test: a code page, a test input page is selected;
\* code_ok, test_ok: the page is fetched; classify: the button is clicked;
\* fails: the call of the run that raises (0: none)
feature_5 ==
  /\ UNCHANGED <<confluence, local_app1_code, gen, dash, text>>
  /\ \E listed \in (IF confluence THEN BOOLEAN ELSE {FALSE}) :
     \E code \in (IF listed THEN BOOLEAN ELSE {FALSE}),
        test \in (IF listed THEN BOOLEAN ELSE {FALSE}),
        code_ok \in BOOLEAN, test_ok \in BOOLEAN,
        fails \in 0..Len(TestKeys), reply \in ReplyTexts,
        classify \in (IF page.feature = "feature_5" /\ page.classify_rendered
                      THEN BOOLEAN ELSE {FALSE}),
        user_question \in (IF page.feature = "feature_5" /\ page.ask_rendered
                           THEN Questions ELSE {<<>>}) :
       LET r0 == [ss |-> test_keys_set(session_state),
                  gf |-> test_keys_written(generated_for),
                  calls |-> 0, raised |-> FALSE]
           r1 == test_generate(test_fetch(r0, code, code_ok),
                               code /\ r0.ss["strategy_text"] = <<>>,
                               "strategy_text", fails, reply)
           r2 == test_generate(r1, code /\ r1.ss["cross_text"] = <<>>,
                               "cross_text", fails, reply)
           r3 == test_generate(test_fetch(r2, test, test_ok), test /\ classify,
                               "sensitivity_text", fails, reply)
           report_shown == /\ listed /\ ~r3.raised
                           /\ \A k \in {"strategy_text", "cross_text",
                                         "sensitivity_text"} : r3.ss[k] # <<>>
           r4 == test_generate(r3, report_shown /\ user_question # <<>>,
                               "ai_response", fails, reply)
       IN  /\ session_state' = r4.ss
           /\ generated_for' = r4.gf
           /\ page' = [FeaturePage EXCEPT
                 !.feature = "feature_5",
                 !.ask_rendered = report_shown,
                 !.classify_rendered = (test /\ test_ok /\ ~r2.raised),
                 !.error = (~confluence \/ r4.raised),
                 !.response = IF report_shown /\ ~r4.raised
                                 /\ r4.ss["ai_response"] # <<>>
                              THEN r4.ss["ai_response"] ELSE None,
                 !.download = report_shown]

FeatureNext == feature_1 \/ feature_5

FeatureSpec == FeatureInit /\ [][FeatureNext]_vars

(***************************************************************************)
(* The Video Summarizer (feature_2): a run goes through the selected pages *)
(* of the space, each with one video attachment.  The page of a run tells  *)
(* the videos whose summary is shown and the videos whose display step     *)
(* raised KeyError (caught at line 319).                                   *)
(***************************************************************************)
Videos == <<"V1", "V2">>

quotes_key(session_key) == session_key \o "_quotes"

\* the steps of lines 217-255 that can raise, in their order
VideoSteps == <<"download", "transcription", "quotes", "summary">>

VideoPage == [feature |-> "feature_2", shown |-> {}, key_error |-> {}, warned |-> {}]

VideoInit ==
  /\ confluence = TRUE
  /\ local_app1_code = None
  /\ session_state = EmptyMap
  /\ generated_for = EmptyMap
  /\ page = VideoPage
  /\ text = NoText
  /\ gen = NoCall
  /\ dash = NoDash

\* lines 214-265 for one video, in a run v that holds the session and the
\* page so far.  libs: moviepy and faster_whisper are installed; fails: the
\* step that raises (0: none); quotes, summary: the generated texts
process_video(v, session_key, libs, fails, quotes, summary) ==
  IF session_key \in DOMAIN v.ss
  THEN [v EXCEPT !.shown = @ \cup {session_key}]
  ELSE IF fails = 1
       THEN [v EXCEPT !.warned = @ \cup {session_key},
                      !.key_error = @ \cup {session_key}]
  ELSE IF ~libs THEN [v EXCEPT !.warned = @ \cup {session_key}]
  ELSE IF fails \in {2, 3}
       THEN [v EXCEPT !.warned = @ \cup {session_key},
                      !.key_error = @ \cup {session_key}]
  ELSE IF fails = 4
       THEN [v EXCEPT !.ss = Put(@, quotes_key(session_key), quotes),
                      !.warned = @ \cup {session_key},
                      !.key_error = @ \cup {session_key}]
  ELSE [v EXCEPT !.ss = Put(Put(@, quotes_key(session_key), quotes), session_key,
                            [transcript |-> <<"t">>, summary |-> summary]),
                 !.shown = @ \cup {session_key}]

RECURSIVE process_videos(_, _, _)
process_videos(v, n, inputs) ==
  IF n > Len(Videos) THEN v
  ELSE process_videos(
         IF inputs[n].selected
         THEN process_video(v, Videos[n], inputs[n].libs, inputs[n].fails,
                            inputs[n].quotes, inputs[n].summary)
         ELSE v,
         n + 1, inputs)

VideoInputs ==
  [selected : BOOLEAN, libs : BOOLEAN, fails : 0..Len(VideoSteps),
   quotes : ReplyTexts, summary : ReplyTexts]

\* no input is drawn for a video that is not selected
PlainInput(i) ==
  i.selected \/ i = [selected |-> FALSE, libs |-> TRUE, fails |-> 0,
                     quotes |-> CHOOSE t \in ReplyTexts : TRUE,
                     summary |-> CHOOSE t \in ReplyTexts : TRUE]

\* one run of feature_2
feature_2 ==
  /\ UNCHANGED <<confluence, local_app1_code, generated_for, gen, dash, text>>
  /\ \E inputs \in [1..Len(Videos) -> VideoInputs] :
       /\ \A n \in 1..Len(Videos) : PlainInput(inputs[n])
       /\ LET v == process_videos([ss |-> session_state, shown |-> {},
                                   key_error |-> {}, warned |-> {}], 1, inputs)
          IN  /\ session_state' = v.ss
              /\ page' = [VideoPage EXCEPT !.shown = v.shown,
                                           !.key_error = v.key_error,
                                           !.warned = v.warned]

VideoNext == feature_2

VideoSpec == VideoInit /\ [][VideoNext]_vars

(***************************************************************************)
(* The PDF export alone: a report text of at most MaxReportLen characters  *)
(* of ReportChars is drawn, with the writer it goes to and the library at  *)
(* hand, and the step writes the PDF.                                      *)
(***************************************************************************)
MaxReportLen == 3

ReportChars == {"a", "\n", "U+00E9", "U+2014", "U+1F7E2", "U+1F534"}

ReportTexts == UNION {[1..n -> ReportChars] : n \in 0..MaxReportLen}

PdfInit ==
  /\ confluence = TRUE
  /\ local_app1_code = None
  /\ session_state = EmptyMap
  /\ generated_for = EmptyMap
  /\ page = BlankPage
  /\ gen = NoCall
  /\ dash = NoDash
  /\ \E report_text \in ReportTexts, writer \in PdfWriters, strict \in BOOLEAN :
       text = [NoText EXCEPT !.op = "pdf", !.pc = "raw",
                 !.input = [report |-> report_text, writer |-> writer,
                            strict |-> strict]]

\* the format is PDF: the writer builds the document
export_pdf ==
  /\ text.op = "pdf" /\ text.pc = "raw"
  /\ text' = [text EXCEPT !.pc = "done",
                !.output = pdf_of(text.input.writer, text.input.report,
                                  text.input.strict)]
  /\ UNCHANGED <<confluence, local_app1_code, session_state, generated_for, page, gen,
                 dash>>

PdfNext == export_pdf

PdfSpec == PdfInit /\ [][PdfNext]_vars

(***************************************************************************)
(* The context of a follow-up question alone: a pair of snippets and the   *)
(* three texts of the session are drawn, the texts empty, short or of a    *)
(* length around ContextChars; the dashboard computes the metrics of the   *)
(* pair, then the question section builds the context (lines 700-705).     *)
(***************************************************************************)
MaxOver == 2

NarrativeLens == {0, 3} \cup ((ContextChars - 1)..(ContextChars + MaxOver))

\* a text of n characters, no two neighbours alike, that starts with first
narrative_of(first, n) == [i \in 1..n |-> IF i = 1 THEN first ELSE ToString(i % 10)]

ContextPairs ==
  ScenarioPairs \cup { <<join(<< <<"a">> >>), join(<< <<"a">> >>)>> }

ContextInit ==
  /\ confluence = TRUE
  /\ local_app1_code = None
  /\ session_state = EmptyMap
  /\ generated_for = EmptyMap
  /\ page = BlankPage
  /\ gen = NoCall
  /\ \E pair \in ContextPairs :
       dash = [NoDash EXCEPT !.old_code = pair[1], !.new_code = pair[2],
                             !.pc = "fetched"]
  /\ \E i \in NarrativeLens, r \in NarrativeLens, k \in NarrativeLens :
       text = [NoText EXCEPT !.op = "qa_context", !.pc = "raw",
                 !.input = [impact_text |-> narrative_of("I", i),
                            rec_text |-> narrative_of("R", r),
                            risk_text |-> narrative_of("U+1F534", k)]]

\* context = (f"Summary: ...") of lines 700-705, with the metrics of this run
build_context ==
  /\ text.op = "qa_context" /\ text.pc = "raw"
  /\ dash.pc = "done" /\ dash.shown
  /\ text' = [text EXCEPT !.pc = "done",
                !.output = qa_context(text.input.impact_text, text.input.rec_text,
                                      text.input.risk_text, dash.metrics)]
  /\ UNCHANGED <<confluence, local_app1_code, session_state, generated_for, page, gen,
                 dash>>

ContextNext == metrics_dashboard \/ build_context

ContextSpec == ContextInit /\ [][ContextNext]_vars

(***************************************************************************)
(* The sanitizer alone: a text is drawn, either any text of at most        *)
(* MaxTextLen characters of TextChars (a tag opener and closer, a letter,  *)
(* a line feed, a bell character, a non-ASCII letter), or one of a few     *)
(* texts longer than MAX_CHARS, and the step sanitizes it.                 *)
(***************************************************************************)
MaxTextLen == 5

\* code points 0 to 31 and 127, written as the other characters are
ControlChars == {"\n", "\r", "\t", "U+0007"}

TextChars == {"<", ">", "b", "\n", "U+0007", "U+00E9"}

ShortTexts == UNION {[1..n -> TextChars] : n \in 0..MaxTextLen}

repeat(c, n) == [i \in 1..n |-> c]

LongTexts ==
  { repeat("b", MAX_CHARS + 1),
    <<"<", "b", ">">> \o repeat("b", MAX_CHARS) \o <<"U+00E9", "b">>,
    repeat("b", MAX_CHARS - 1) \o <<"<", "b", ">", "\n", "<", "U+00E9">>,
    repeat("U+00E9", MAX_CHARS) \o <<"b", "\n">>,
    repeat("b", MAX_CHARS - 2) \o <<"<", ">", "<", "b", ">">> }

SanitizeInit ==
  /\ confluence = TRUE
  /\ local_app1_code = None
  /\ session_state = EmptyMap
  /\ generated_for = EmptyMap
  /\ page = BlankPage
  /\ gen = NoCall
  /\ dash = NoDash
  /\ \E input \in ShortTexts \cup LongTexts :
       text = [NoText EXCEPT !.op = "clean_and_truncate_prompt", !.pc = "raw",
                             !.input = input]

\* prompt = clean_and_truncate_prompt(prompt)
sanitize ==
  /\ text.op = "clean_and_truncate_prompt" /\ text.pc = "raw"
  /\ text' = [text EXCEPT !.pc = "done", !.output = clean_and_truncate_prompt(text.input)]
  /\ UNCHANGED <<confluence, local_app1_code, session_state, generated_for, page, gen,
                 dash>>

SanitizeNext == sanitize

SanitizeSpec == SanitizeInit /\ [][SanitizeNext]_vars

(***************************************************************************)
(* The severity tagging alone: a raw risk text is drawn, made of at most   *)
(* MaxTokens pieces, and the step tags it as lines 676-684 do.             *)
(***************************************************************************)
MaxTokens == 3

RiskTokens ==
  { <<"L", "o", "w">>, <<"M", "e", "d", "i", "u", "m">>, <<"H", "i", "g", "h">>,
    <<"L", "o", "w", "e", "s", "t">>, <<"l", "o", "w">>, <<" ">>, <<"_">>, <<",">>,
    <<"U+00E9">>, <<"U+1F7E2", " ">> }

RECURSIVE concat(_)
concat(pieces) == IF pieces = <<>> THEN <<>> ELSE pieces[1] \o concat(Tail(pieces))

RiskTexts == {concat(ps) : ps \in UNION {[1..n -> RiskTokens] : n \in 0..MaxTokens}}

TagInit ==
  /\ confluence = TRUE
  /\ local_app1_code = None
  /\ session_state = EmptyMap
  /\ generated_for = EmptyMap
  /\ page = BlankPage
  /\ gen = NoCall
  /\ dash = NoDash
  /\ \E raw_risk \in RiskTexts :
       text = [NoText EXCEPT !.op = "tag_severity", !.pc = "raw", !.input = raw_risk]

\* st.session_state.risk_text = re.sub(..., raw_risk)
tag_risk ==
  /\ text.op = "tag_severity" /\ text.pc = "raw"
  /\ text' = [text EXCEPT !.pc = "done", !.output = tag_severity(text.input)]
  /\ UNCHANGED <<confluence, local_app1_code, session_state, generated_for, page, gen,
                 dash>>

TagNext == tag_risk

TagSpec == TagInit /\ [][TagNext]_vars

(***************************************************************************)
(* The percentage alone, for snapshots too long to be spelled out: the     *)
(* counts of the lines of old_code and of the "+" and "-" lines of a diff  *)
(* are drawn, and the step computes total_lines and percent_change from    *)
(* them.  old_code is not empty here, so it has at least one line, and a   *)
(* diff removes no more lines than old_code has.                           *)
(***************************************************************************)
MaxOldLines == 160

MaxAdded == 1

PercentInit ==
  /\ confluence = TRUE
  /\ local_app1_code = None
  /\ session_state = EmptyMap
  /\ generated_for = EmptyMap
  /\ page = BlankPage
  /\ text = NoText
  /\ gen = NoCall
  /\ \E old_len \in 1..MaxOldLines :
       \E lines_removed \in 0..old_len, lines_added \in 0..MaxAdded :
         dash = [NoDash EXCEPT !.pc = "counted",
                               !.old_len = old_len,
                               !.metrics.lines_added = lines_added,
                               !.metrics.lines_removed = lines_removed]

\* total_lines = len(old_lines) or 1; percent_change = round(..., 2)
percent_changed ==
  /\ dash.pc = "counted"
  /\ LET old_lines == [i \in 1..dash.old_len |-> <<"a">>]
         total_lines == total_lines_of(old_lines)
     IN  dash' = [dash EXCEPT
                    !.pc = "percent",
                    !.metrics.total_lines = total_lines,
                    !.metrics.percent_change =
                       percent_change_of(dash.metrics.lines_added,
                                         dash.metrics.lines_removed, total_lines)]
  /\ UNCHANGED <<confluence, local_app1_code, session_state, generated_for, page, gen,
                 text>>

PercentNext == percent_changed

PercentSpec == PercentInit /\ [][PercentNext]_vars

(***************************************************************************)
(* Properties of safe_generate (GenSpec, GenFairSpec).                     *)
(***************************************************************************)
GenDone == gen.pc \in {"returned", "raised"}

PromptRequests == {n \in DOMAIN gen.requests : gen.requests[n].kind = "prompt"}

FallbackRequests == {n \in DOMAIN gen.requests : gen.requests[n].kind = "fallback"}

\* C1: a call of safe_generate never raises to its caller, whatever requests
\* of the collaborator fail: after three failed attempts the result of the
\* fallback prompt is returned.
C1_NeverRaises ==
  /\ gen.pc # "raised"
  /\ (gen.pc = "returned" /\ Cardinality(PromptRequests) = 3
      /\ \A n \in PromptRequests : ~gen.requests[n].ok)
     => (FallbackRequests # {} /\ gen.text = strip(gen.oracle.text))

\* C2: within one call the prompt is sent at most 3 times, nothing is sent
\* after a request that succeeded, and 2 time units separate a failed
\* request from the next one.
C2_BoundedRetries ==
  /\ Cardinality(PromptRequests) <= 3
  /\ \A n \in PromptRequests : gen.requests[n].sent = gen.prompt
  /\ \A n \in DOMAIN gen.requests :
       n < Len(gen.requests) =>
         /\ ~gen.requests[n].ok
         /\ gen.requests[n + 1].at - gen.requests[n].at = 2

\* two failed attempts, a delay after each, then the attempt that succeeds
C2_Witness ==
  /\ gen.pc = "returned"
  /\ Len(gen.requests) = 3
  /\ gen.requests[3].kind = "prompt"
  /\ gen.requests[3].at = 4

C3_FallbackShape ==
  /\ Len(gen.requests) <= 4
  /\ Cardinality(FallbackRequests) <= 1
  /\ \A n \in FallbackRequests :
       /\ n = Len(gen.requests)
       /\ GenDone
       /\ PromptRequests = 1..3
       /\ \A k \in PromptRequests : ~gen.requests[k].ok
  /\ (GenDone /\ \A k \in 1..3 : ~gen.oracle.ok[k])
     => Cardinality(FallbackRequests) = 1

\* C3: after 3 failed attempts in a row the fallback prompt is sent exactly
\* once and the call ends with it; a call makes at most 4 requests and
\* always comes to an end.
C3_FallbackOnce == []C3_FallbackShape /\ <>GenDone

\* three failed attempts, then the fallback request, which succeeds
C3_Witness ==
  /\ gen.pc = "returned"
  /\ Len(gen.requests) = 4
  /\ gen.requests[4].kind = "fallback"
  /\ gen.requests[4].ok

(***************************************************************************)
(* Properties of the session cache of feature_4 (Spec).                    *)
(***************************************************************************)
CallsFor(p, key) == {n \in DOMAIN p.calls : p.calls[n].call = key}

\* a run that got as far as the narratives of a pair of snippets
ReachedReport(p) ==
  p.view = "report" \/ (p.view = "error" /\ p.error = "generation")

PairOf(p) == <<p.old_code, p.new_code>>

\* C4: once impact_text, rec_text or risk_text is set, a later run for the
\* same pair of snippets makes no call for that field and leaves its value
\* as it is.
C4_NarrativesCached ==
  [][\A key \in NarrativeKeys \cap DOMAIN session_state :
       (ReachedReport(page') /\ PairOf(page') = generated_for[key].pair)
         => /\ key \in DOMAIN session_state'
            /\ session_state'[key] = session_state[key]
            /\ generated_for'[key] = generated_for[key]
            /\ CallsFor(page', key) = {}]_vars

\* a run that shows the report of the pair its narratives were made for
\* without a single call
C4_Witness ==
  /\ page.view = "report"
  /\ page.calls = <<>>
  /\ NarrativeKeys \subseteq DOMAIN session_state
  /\ \A key \in NarrativeKeys : generated_for[key].pair = PairOf(page)

\* C5: the cached narratives and the cached answer belong to one pair of
\* snippets: the report shown for a pair holds no text that was generated
\* for another pair.
C5_CacheScopedToPair ==
  page.view = "report" =>
    \A key \in DOMAIN generated_for : generated_for[key].pair = PairOf(page)

StoredQuestion(ss) ==
  IF "user_question" \in DOMAIN ss THEN ss["user_question"] ELSE <<>>

StoredAnswer(ss) ==
  IF "qa_answer" \in DOMAIN ss THEN ss["qa_answer"] ELSE <<>>

\* C6: the follow-up section calls the collaborator exactly when the
\* question is not empty and differs from the stored one; a repeated
\* question keeps the cached answer without a call, a new question makes
\* one call whose result becomes the cached answer.
C6_QuestionCallIffNew ==
  [][page'.question_rendered =>
       LET q == page'.user_question_input
           asked == CallsFor(page', "qa_answer")
       IN  /\ (asked # {}) <=> (q # <<>> /\ q # StoredQuestion(session_state))
           /\ Cardinality(asked) <= 1
           /\ asked = {} => /\ session_state'["qa_answer"] = StoredAnswer(session_state)
                            /\ session_state'["user_question"]
                                 = StoredQuestion(session_state)
           /\ \A n \in asked :
                ~page'.calls[n].raised =>
                  /\ session_state'["qa_answer"] = page'.calls[n].text
                  /\ session_state'["user_question"] = q
                  /\ generated_for'["qa_answer"].question = q]_vars

\* the stored question asked again: its answer is shown and no call is made
C6_Witness ==
  /\ page.question_rendered
  /\ page.user_question_input # <<>>
  /\ page.calls = <<>>
  /\ session_state["qa_answer"] # <<>>
  /\ generated_for["qa_answer"].question = page.user_question_input

\* C7: a report built with no narrative in the session makes exactly three
\* narrative calls, impact, recommendations, risk, in this order, each with
\* its template followed by the same sanitized diff.
C7_ThreeNarrativeCalls ==
  [][(ReachedReport(page') /\ NarrativeKeys \cap DOMAIN session_state = {})
       => LET narrative == SelectSeq(page'.calls,
                                     LAMBDA c : c.call \in NarrativeKeys)
          IN  /\ Len(narrative) = 3
              /\ narrative[1].call = "impact_text"
              /\ narrative[1].prompt = impact_template \o page'.safe_diff
              /\ narrative[2].call = "rec_text"
              /\ narrative[2].prompt = rec_template \o page'.safe_diff
              /\ narrative[3].call = "risk_text"
              /\ narrative[3].prompt = risk_template \o page'.safe_diff]_vars

(***************************************************************************)
(* Properties of the change metrics (MetricsSpec).                         *)
(***************************************************************************)
DashOpcodes == get_opcodes(splitlines(dash.old_code), splitlines(dash.new_code))

\* the ADD operations of the edit script: the lines of b it inserts
AddOps(codes) ==
  LET n(c) == IF c.tag \in {"replace", "insert"} THEN c.j2 - c.j1 ELSE 0
      sum[k \in 0..Len(codes)] == IF k = 0 THEN 0 ELSE sum[k - 1] + n(codes[k])
  IN  sum[Len(codes)]

\* the REMOVE operations of the edit script: the lines of a it deletes
RemoveOps(codes) ==
  LET n(c) == IF c.tag \in {"replace", "delete"} THEN c.i2 - c.i1 ELSE 0
      sum[k \in 0..Len(codes)] == IF k = 0 THEN 0 ELSE sum[k - 1] + n(codes[k])
  IN  sum[Len(codes)]

\* C8: for two identical snapshots the diff has no ADD and no REMOVE
\* operation, and lines_added, lines_removed and percent_changed are 0.
C8_IdenticalNoChange ==
  (dash.shown /\ splitlines(dash.old_code) = splitlines(dash.new_code))
    => /\ AddOps(DashOpcodes) = 0
       /\ RemoveOps(DashOpcodes) = 0
       /\ dash.metrics.lines_added = 0
       /\ dash.metrics.lines_removed = 0
       /\ dash.metrics.percent_change = 0

\* the dashboard of two identical snapshots of several lines
C8_Witness ==
  /\ dash.shown
  /\ dash.old_code = dash.new_code
  /\ Len(splitlines(dash.old_code)) >= 2
  /\ count_newlines(dash.old_code) = Len(splitlines(dash.old_code))

\* C9: lines_added is the number of ADD operations of the diff and
\* lines_removed the number of its REMOVE operations, whatever the text of
\* the lines is; only the two header lines are left out.
C9_CountsAreOps ==
  dash.shown => /\ dash.metrics.lines_added = AddOps(DashOpcodes)
                /\ dash.metrics.lines_removed = RemoveOps(DashOpcodes)

\* the percentage rounded to the nearest hundredth in exact arithmetic, a
\* tie going to the even hundredth
IsExactPercent(h, n, t) ==
  /\ 2 * abs(h * t - 10000 * n) <= t
  /\ 2 * abs(h * t - 10000 * n) = t => h % 2 = 0

\* C10: percent_changed equals round(100 * (lines_added + lines_removed) /
\* max(1, len(old_lines)), 2) for every pair of snapshots, and is never
\* negative.
C10_PercentChanged ==
  dash.pc \in {"done", "percent"} =>
    /\ dash.metrics.percent_change >= 0
    /\ dash.metrics.total_lines > 0 =>
         IsExactPercent(dash.metrics.percent_change,
                        dash.metrics.lines_added + dash.metrics.lines_removed,
                        Max(1, dash.old_len))

\* C11: with an empty old snapshot and a new one that is not empty the
\* metrics are produced with 1 as the denominator: every line of the new
\* snapshot is added, none is removed, and percent_changed is 100 times the
\* number of its lines (300.0 for three lines).
C11_EmptyOldAllAdded ==
  (dash.pc = "done" /\ dash.old_code = <<>> /\ dash.new_code # <<>>)
    => /\ dash.shown
       /\ dash.metrics.lines_added = Len(splitlines(dash.new_code))
       /\ dash.metrics.lines_removed = 0
       /\ dash.metrics.percent_change = 10000 * Len(splitlines(dash.new_code))

\* C12: blocks_changed is abs(floor(old_line_count / 5) -
\* floor(new_line_count / 5)), the line counts being those of the line
\* sequences the diff is computed on, with or without a final newline.
C12_BlocksFromLineCounts ==
  dash.shown =>
    dash.metrics.code_blocks_changed
      = abs((Len(splitlines(dash.old_code)) \div 5)
            - (Len(splitlines(dash.new_code)) \div 5))

\* C13: lines_added and lines_removed never exceed the combined line counts
\* of the old and the new snapshot.
C13_CountsBounded ==
  dash.shown =>
    LET combined == Len(splitlines(dash.old_code)) + Len(splitlines(dash.new_code))
    IN  /\ dash.metrics.lines_added <= combined
        /\ dash.metrics.lines_removed <= combined

\* every line of the old snapshot removed and every line of the new one added
C13_Witness ==
  /\ dash.shown
  /\ Len(splitlines(dash.old_code)) >= 2
  /\ dash.metrics.lines_removed = Len(splitlines(dash.old_code))
  /\ dash.metrics.lines_added = Len(splitlines(dash.new_code))
  /\ dash.metrics.lines_added >= 2

\* the "+" and "-" lines of the hunks of a diff text, in their order
ChangeLines(full_diff_text) ==
  LET ls == splitlines(full_diff_text)
  IN  SelectSeq(SubSeq(ls, 3, Len(ls)),
                LAMBDA l : startswith(l, <<"+">>) \/ startswith(l, <<"-">>))

\* C14: for old = ["a", "b", "c"] and new = ["a", "x", "c", "d"] the change
\* operations of the diff are exactly REMOVE "b", ADD "x" and ADD "d", and
\* the metrics are lines_added = 2, lines_removed = 1, percent_changed = 100.0.
C14_Scenario ==
  (/\ dash.shown
   /\ splitlines(dash.old_code) = << <<"a">>, <<"b">>, <<"c">> >>
   /\ splitlines(dash.new_code) = << <<"a">>, <<"x">>, <<"c">>, <<"d">> >>)
    => /\ ChangeLines(full_diff_text_of(dash.old_code, dash.new_code, <<"P">>, <<"Q">>))
            = << <<"-", "b">>, <<"+", "x">>, <<"+", "d">> >>
       /\ RemoveOps(DashOpcodes) = 1
       /\ AddOps(DashOpcodes) = 2
       /\ dash.metrics.lines_added = 2
       /\ dash.metrics.lines_removed = 1
       /\ dash.metrics.percent_change = 10000

\* the dashboard of the scenario
C14_Witness ==
  /\ dash.shown
  /\ dash.old_code = <<"a", "\n", "b", "\n", "c">>
  /\ dash.new_code = <<"a", "\n", "x", "\n", "c", "\n", "d">>

\* the length of a longest common subsequence of the line sequences a and b
LCS(a, b) ==
  LET t[i \in 0..Len(a), j \in 0..Len(b)] ==
        IF i = 0 \/ j = 0 THEN 0
        ELSE IF a[i] = b[j] THEN t[i - 1, j - 1] + 1
        ELSE Max(t[i - 1, j], t[i, j - 1])
  IN  t[Len(a), Len(b)]

\* no line begins with "+" or "-": the counts of lines 654-655 then are the
\* numbers of "+" and "-" lines of the hunks
PlainLines(lines) ==
  \A i \in 1..Len(lines) :
    ~startswith(lines[i], <<"+">>) /\ ~startswith(lines[i], <<"-">>)

\* C15: the diff is a minimal edit script: lines_added + lines_removed is
\* len(old) + len(new) - 2 * LCS(old, new) for every pair of line sequences
\* (stated here for lines that do not begin with "+" or "-").
C15_MinimalEditScript ==
  (/\ dash.shown
   /\ PlainLines(splitlines(dash.old_code))
   /\ PlainLines(splitlines(dash.new_code)))
    => dash.metrics.lines_added + dash.metrics.lines_removed
         = Len(splitlines(dash.old_code)) + Len(splitlines(dash.new_code))
           - 2 * LCS(splitlines(dash.old_code), splitlines(dash.new_code))

(***************************************************************************)
(* Properties of the text transformations.                                 *)
(***************************************************************************)
SeverityWords ==
  { <<"L", "o", "w">>, <<"M", "e", "d", "i", "u", "m">>, <<"H", "i", "g", "h">> }

MarkerOf(word) ==
  IF word = <<"L", "o", "w">> THEN "U+1F7E2"
  ELSE IF word = <<"M", "e", "d", "i", "u", "m">> THEN "U+1F7E1"
  ELSE "U+1F534"

\* word stands at position p of t as a whole word: no letter, digit or
\* underscore touches it on either side
IsWholeWord(t, p, word) ==
  /\ p + Len(word) - 1 <= Len(t)
  /\ SubSeq(t, p, p + Len(word) - 1) = word
  /\ p = 1 \/ t[p - 1] \notin WordChars
  /\ p + Len(word) > Len(t) \/ t[p + Len(word)] \notin WordChars

\* the positions of t where a severity word stands as a whole word
WholeWords(t) ==
  {p \in 1..Len(t) : \E word \in SeverityWords : IsWholeWord(t, p, word)}

WordStanding(t, p) == CHOOSE word \in SeverityWords : IsWholeWord(t, p, word)

\* u is t with a marker and a space put before each whole severity word and
\* nothing else changed: character i of t is found 2 places further right
\* for every whole word that starts at or before i
IsTagged(t, u) ==
  LET W == WholeWords(t)
      at(i) == i + 2 * Cardinality({p \in W : p <= i})
  IN  /\ Len(u) = Len(t) + 2 * Cardinality(W)
      /\ \A i \in 1..Len(t) : u[at(i)] = t[i]
      /\ \A p \in W : /\ u[at(p) - 2] = MarkerOf(WordStanding(t, p))
                      /\ u[at(p) - 1] = " "

\* C16: the risk text gets a marker before exactly the whole-word
\* occurrences of "Low", "Medium" and "High"; every other character stays,
\* a word that only contains one of them ("Lowest") is not tagged, and
\* taking the inserted markers out gives the raw text back.
C16_WholeWordTags ==
  (text.op = "tag_severity" /\ text.pc = "done") => IsTagged(text.input, text.output)

\* "Low Lowest": the first word is tagged, the second is not
C16_Witness ==
  /\ text.op = "tag_severity" /\ text.pc = "done"
  /\ text.input = <<"L", "o", "w", " ", "L", "o", "w", "e", "s", "t">>
  /\ text.output = <<"U+1F7E2", " ", "L", "o", "w", " ", "L", "o", "w", "e", "s", "t">>

\* t holds a markup tag: a "<", then one character or more, none of them
\* ">", then a ">"
HasTag(t) ==
  \E i \in 1..Len(t) :
    /\ t[i] = "<"
    /\ i + 1 <= Len(t) /\ t[i + 1] # ">"
    /\ \E j \in (i + 2)..Len(t) : t[j] = ">"

Sanitized == text.op = "clean_and_truncate_prompt" /\ text.pc = "done"

\* C17: for every input text the sanitizer returns a text that holds no
\* markup tag, no character outside the 7-bit printable range (code points
\* 32 to 126) and at most 10,000 characters.
C17_PrintableOnly ==
  Sanitized =>
    /\ ~HasTag(text.output)
    /\ \A i \in 1..Len(text.output) : text.output[i] \notin NonAscii \cup ControlChars
    /\ Len(text.output) <= 10000

\* C17 as amended: for every input text the sanitizer returns a text that
\* holds no markup tag, no character outside the 7-bit range (code points
\* 0 to 127) and at most 10,000 characters.
C17_AsciiOnly ==
  Sanitized =>
    /\ ~HasTag(text.output)
    /\ \A i \in 1..Len(text.output) : text.output[i] \notin NonAscii
    /\ Len(text.output) <= 10000

\* a text longer than the limit, with a tag and a non-ASCII letter in it, is
\* cut to the limit after both are taken out
C17_Witness ==
  /\ Sanitized
  /\ Len(text.input) > 10000 /\ HasTag(text.input)
  /\ \E i \in 1..Len(text.input) : text.input[i] \in NonAscii
  /\ Len(text.output) = 10000

\* a text that has passed through the sanitizer comes out of it unchanged
IsSanitized(t) == clean_and_truncate_prompt(t) = t

\* C18: every text handed to the collaborator and every text handed to an
\* export encoder has passed through the prompt sanitizer: each prompt
\* requested in the run, and the text the chosen download format encodes,
\* is a text the sanitizer leaves as it is.
C18_AllSanitized ==
  /\ \A n \in 1..Len(page.calls) : \A k \in 1..Len(page.calls[n].requests) :
       page.calls[n].requests[k].kind = "prompt"
         => IsSanitized(page.calls[n].requests[k].sent)
  /\ page.view = "report" => IsSanitized(page.exported)

\* the first n characters of t, all of t when it has fewer
FirstChars(t, n) == [i \in 1..(IF Len(t) < n THEN Len(t) ELSE n) |-> t[i]]

ContextBuilt == text.op = "qa_context" /\ text.pc = "done"

\* C19: the context of a follow-up question is made of the first 1000
\* characters of the impact, the recommendations and the risk text, each
\* after its label, and of the lines added, the lines removed and the
\* percentage of the snapshot pair of this run, and of nothing else.
C19_BoundedContext ==
  ContextBuilt =>
    text.output =
      <<"S", "u", "m", "m", "a", "r", "y", ":", " ">>
      \o FirstChars(text.input.impact_text, 1000)
      \o <<"\n", "R", "e", "c", "o", "m", "m", "e", "n", "d", "a", "t", "i", "o", "n", "s",
           ":", " ">>
      \o FirstChars(text.input.rec_text, 1000)
      \o <<"\n", "R", "i", "s", "k", "s", ":", " ">>
      \o FirstChars(text.input.risk_text, 1000)
      \o <<"\n", "C", "h", "a", "n", "g", "e", "s", ":", " ", "+">>
      \o str_int(lines_added_of(full_diff_text_of(dash.old_code, dash.new_code,
                                                  <<"P">>, <<"Q">>)))
      \o <<",", " ", "-">>
      \o str_int(lines_removed_of(full_diff_text_of(dash.old_code, dash.new_code,
                                                    <<"P">>, <<"Q">>)))
      \o <<",", " ", "~">> \o str_percent(dash.metrics.percent_change) \o <<"%">>

\* a context built from a text longer than 1000 characters, one of exactly
\* 1000 and a short one, for a pair with changes
C19_Witness ==
  /\ ContextBuilt
  /\ Len(text.input.impact_text) > 1000
  /\ Len(text.input.rec_text) = 1000
  /\ Len(text.input.risk_text) = 3
  /\ dash.metrics.lines_added = 2 /\ dash.metrics.lines_removed = 1
  /\ Len(text.output) = 9 + 1000 + 18 + 1000 + 8 + 3 + 11 + 1 + 3 + 1 + 3 + 5 + 1

\* C20: in a run where neither the old nor the new code has been obtained
\* (no source at all, nothing selected, a fetch that failed, two selections
\* without code) the report pipeline is not entered: the run makes no
\* collaborator call, computes no diff and no metrics and shows no
\* question box.
C20_NoReportWithoutCode ==
  (page.old_code = <<>> /\ page.new_code = <<>>)
    => /\ page.calls = <<>>
       /\ page.metrics = NoMetrics
       /\ page.safe_diff = <<>>
       /\ ~page.question_rendered
       /\ page.view \in {"start", "no_source", "select", "error", "no_code"}

\* the local file is selected on both sides and is empty
C20_Witness ==
  /\ page.view = "no_code"
  /\ page.old_page_title = local_option /\ page.new_page_title = local_option
  /\ page.old_code = <<>> /\ page.new_code = <<>>
  /\ page.calls = <<>> /\ page.metrics = NoMetrics

(***************************************************************************)
(* Properties of the fetch failures.                                       *)
(***************************************************************************)
\* the run has shown the error of a listing or of a page fetch
FetchFailed(p) == p.listing_failed \/ (p.view = "error" /\ p.error = "fetch")

OnLocal(p) == p.old_page_title = local_option /\ p.new_page_title = local_option

\* the run has gone into the report of the local file: its dashboard is
\* computed and no fetch error has ended the run
LocalReport(p) ==
  /\ p.view \in {"report", "error"} /\ p.error # "fetch"
  /\ p.old_code = local_app1_code /\ p.new_code = local_app1_code
  /\ p.metrics = Dashboards[[title |-> local_option, code |-> local_app1_code],
                            [title |-> local_option, code |-> local_app1_code]].metrics

\* C21: a failure of the listing or of a page fetch ends in an error shown
\* on the page, not in a crash, and leaves the local file among the
\* options; the run in which the listing fails, and every run after a
\* failure, goes into the report of the local file when the local file is
\* selected on both sides.
C21_ProceedAfterFetchFailure ==
  /\ [](FetchFailed(page) => local_option \in Range(page.options))
  /\ []((page.listing_failed /\ OnLocal(page)) => LocalReport(page))
  /\ [][(FetchFailed(page) /\ OnLocal(page')) => LocalReport(page')]_vars

\* the listing has failed and the report of the local file is on the page
C21_Witness ==
  /\ page.listing_failed /\ OnLocal(page)
  /\ page.view = "report" /\ page.options = <<local_option>>
  /\ page.calls # <<>>

(***************************************************************************)
(* Properties of the PDF export.                                           *)
(***************************************************************************)
\* C22: the PDF export of a report text always completes, whatever the
\* characters of the text: a line that latin-1 cannot encode is written
\* with its unsupported characters substituted, and no line that cannot be
\* encoded reaches the document.
C22_PdfNeverAborts ==
  (text.op = "pdf" /\ text.pc = "done")
    => /\ text.output.completed
       /\ \A n \in 1..Len(text.output.written) : encodable(text.output.written[n])

(***************************************************************************)
(* Properties of the stored texts.                                         *)
(***************************************************************************)
\* the texts safe_generate can return in a session
GeneratedTexts == {strip(t) : t \in SessionReplies}

\* C23: the stored risk_text is a generated text with one marker before
\* each of its whole-word severity tokens, and once stored it stays as it
\* is: no later run tags it again.
C23_TaggedOnce ==
  /\ [](("risk_text" \in DOMAIN session_state)
          => \E raw_risk \in GeneratedTexts :
               IsTagged(raw_risk, session_state["risk_text"]))
  /\ [][("risk_text" \in DOMAIN session_state)
          => /\ "risk_text" \in DOMAIN session_state'
             /\ session_state'["risk_text"] = session_state["risk_text"]]_vars

\* a later run that shows the stored risk text without a call: one marker
C23_Witness ==
  /\ page.view = "report" /\ page.calls = <<>>
  /\ "risk_text" \in DOMAIN session_state
  /\ session_state["risk_text"] = <<"U+1F7E2", " ", "L", "o", "w">>

\* C24: a stored answer that is not empty is the text generated for the
\* stored question; a generation that raises for a new question does not
\* leave the new question next to the answer of the question before.
C24_AnswerOfStoredQuestion ==
  StoredAnswer(session_state) # <<>>
    => /\ "qa_answer" \in DOMAIN generated_for
       /\ generated_for["qa_answer"].question = StoredQuestion(session_state)

(***************************************************************************)
(* Properties of the session key ai_response.                              *)
(***************************************************************************)
\* C25: the response a feature shows under "AI Response" is a text that
\* this feature has generated, whatever the order of the features in the
\* session: AI Powered Search never shows what the Test Support Tool wrote
\* to ai_response (its initial empty text or its answer), and the Test
\* Support Tool never shows what AI Powered Search wrote.
C25_OwnResponse ==
  page.feature \in {"feature_1", "feature_5"} /\ page.response # None
    => /\ "ai_response" \in DOMAIN generated_for
       /\ generated_for["ai_response"] = Written(page.feature, TRUE)

(***************************************************************************)
(* Properties of the video summarizer.                                     *)
(***************************************************************************)
\* C26: the session holds the quotes entry of a video only together with
\* its transcript and summary entry, so a video whose processing failed
\* leaves no entry behind; and no display step reads the entry of a video
\* that the session does not hold.
C26_AllOrNothing ==
  /\ \A n \in 1..Len(Videos) :
       quotes_key(Videos[n]) \in DOMAIN session_state
         => Videos[n] \in DOMAIN session_state
  /\ page.feature = "feature_2" => page.key_error = {}

====
